---- MODULE Spec2Model ----
(***************************************************************************)
(* A model of butterfly's state tracking (StateGraph, StateObserver,       *)
(* StateFeedback) and of its packet mutation scheduler.                    *)
(*                                                                         *)
(* Rust's Option<T> is written as a sequence: None is << >>, Some(x) is    *)
(* <<x>>.  A u64 is written as its pair of 32-bit halves <<hi, lo>>.       *)
(***************************************************************************)
EXTENDS Integers, Sequences, FiniteSets, TLC

(***************************************************************************)
(* Bounds of the model.                                                    *)
(***************************************************************************)
\* Number of distinct protocol state values (PS) the executor can report.
NumStates == 2
\* Largest number of record() calls the executor makes in one execution.
MaxTrace == 3
\* Largest number of pre_exec() calls (executions started) in one run.
MaxExecs == 2

\* Largest number of packets of an input the model starts from.
MaxPackets == 3
\* Largest number of bytes of a packet in the model.
MaxBytes == 1
\* Largest number of packets of an input a scheduler invocation starts from.
SchedMaxPackets == 2
\* Largest number of bytes of self and of other when one packet-level
\* mutation is followed, and largest max_size of the state.
MaxVecLen == 3
MaxMaxSize == 3
\* Arguments of PacketDeleteMutator::new, PacketSpliceMutator::new and
\* PacketDuplicateMutator::new in the model.
DeleteMinArg == 1
SpliceMinArg == 1
DuplicateMaxArg == 3
\* Largest number of mutator runs followed within one scheduler invocation.
MaxRuns == 2

PS == 1..NumStates

\* The byte values of the model (0 is the fill value of Vec::resize).
Byte == {0, 1}

None == << >>
Some(x) == <<x>>

VARIABLES
    graph,      \* StateObserver.graph : StateGraph<PS>
    panicked,   \* TRUE once the assert! in add_node has failed
    ret,        \* Option: value returned by the last is_interesting call
    fired,      \* events passed to mgr.fire by the last is_interesting call
    op,         \* name of the operation that ran last
    \* History of the calls made so far (what the claims speak about).
    hStates,    \* set of state values ever passed to record
    hPairs,     \* set of pairs <<prev, cur>>, prev # cur, recorded consecutively in one execution
    hOrder,     \* the distinct state values in first-seen order
    hPrev,      \* Option: state passed to the previous record call of this execution
    hNovel,     \* some pair of this execution was absent from the edge set when recorded
    hNewPair,   \* some pair of this execution had never been recorded before
    hGrew,      \* this execution recorded a state value or a pair never seen before
    hLen,       \* number of record calls since the last pre_exec
    hTrace,     \* states recorded since the last pre_exec (replay specification)
    hOld,       \* Option: the trace of one earlier execution (replay specification)
    hInfo0,     \* info() at the last pre_exec
    hExecs,     \* number of pre_exec calls
    \* The mutation scheduler.
    input,      \* the packets of the input being mutated (each a sequence of bytes)
    result,     \* the local variable result of scheduled_mutate
    pc,         \* where PacketMutationScheduler::mutate is: "idle", "loop" or "returned"
    mret,       \* Option: the value mutate returned
    runs,       \* number of mutators run so far by the current mutate call (counted up to MaxRuns)
    \* History of the mutator calls.
    hInput0,    \* the packets of the input when the current mutate call began
    hCan,       \* some mutator of the tuple could return Mutated on the packets the current mutate call began with
    hDraw,      \* some draw of schedule and of the mutator scheduled returns Mutated on those packets
    hMutated,   \* number of mutator runs of the current mutate call that returned Mutated
    last,       \* Option: mutator, constructor argument, packets before and draws of the mutator run
                \* remembered: the last one, or in scheduled_mutate the one that returned Mutated
    \* One packet under the packet-level mutations.
    bytes_self,   \* the bytes of the packet mutated (self)
    bytes_other,  \* the bytes of the packet passed as other
    max_size,     \* state.max_size()
    bytes_result, \* Option: the MutationResult of the last packet-level call
    bytes_last,   \* Option: operation, bytes of self before and draws of the last packet-level call
    \* PacketHavocMutator::mutate, step by step (on input, with result its local variable).
    havoc,        \* where mutate is, its locals iters and packet, the iterations done, and
                  \* what the inner calls of this invocation returned
    \* One packet of a composite packet type under the packet-level mutations.
    typed_self,     \* the packet mutated (self): its type, its variant and its Option of bytes
    typed_other,    \* the packet passed as other
    typed_result,   \* Option: the MutationResult of the last call
    typed_op,       \* Option: the capability called last
    typed_variant,  \* the variant self started as
    \* The monitor.
    client_stats,   \* Monitor::client_stats: per client, the user stats reported under each key
    average,        \* Option: what the last display call computed for num_nodes and num_edges, or its
                    \* panic; None again once a client has joined or reported
    \* The stats file of FuzzerStatsWrapper.
    stats_file,     \* Option: the lines of the file at self.filename, None while it does not exist
    now,            \* current_time(), in seconds
    last_update,    \* FuzzerStatsWrapper.last_update, in seconds
    interval,       \* FuzzerStatsWrapper.interval
    file_removed,   \* the file has been removed at some time
    \* Standard output.
    stdout,         \* Option: the lines print_statemachine has printed
    \* The seed loader.
    in_dir,         \* the entries of the directory given to load_pcaps, in the order read_dir yields them
    loaded,         \* Option: what a load_pcaps call did: its from_pcap calls, the inputs evaluated, its end
    \* Two runs of a mutator on the same packets from the same PRNG state.
    twin,           \* per run: the PRNG state, the packets, the Option of the last MutationResult
    \* pack_transition and unpack_transition on integers.
    packed,         \* two pairs of ids, and Option: their packed values and these unpacked again
    \* The policy knobs of a scheduler's mutators.
    knobs,          \* the arguments of PacketDeleteMutator::new, PacketSpliceMutator::new and
                    \* PacketDuplicateMutator::new, and the number of packets at the start
    \* The element accesses of a mutator call.
    access,         \* Option: the mutator, its argument, the lengths it met and the accesses it made
    \* One is_interesting evaluation after every execution.
    exec_pc,        \* "idle", "running" (between pre_exec and is_interesting) or "evaluated"
    hInteresting,   \* number of executions is_interesting returned true for
    published       \* per user stat, the Option of the value fired last

obsVars == <<graph, panicked, ret, fired, op>>
histVars == <<hStates, hPairs, hOrder, hPrev, hNovel, hNewPair, hGrew, hLen, hTrace, hOld, hInfo0, hExecs>>
schedVars == <<input, result, pc, mret, runs>>
callVars == <<hInput0, last, hMutated, hCan, hDraw>>
byteVars == <<bytes_self, bytes_other, max_size, bytes_result, bytes_last>>
havocVars == <<havoc>>
typedVars == <<typed_self, typed_other, typed_result, typed_op, typed_variant>>
monVars == <<client_stats, average>>
fileVars == <<stats_file, now, last_update, interval, file_removed>>
printVars == <<stdout>>
loadVars == <<in_dir, loaded>>
seedVars == <<twin>>
packVars == <<packed>>
lengthVars == <<knobs>>
accessVars == <<access>>
noveltyVars == <<exec_pc, hInteresting, published>>
laterVars == <<loadVars, seedVars, packVars, lengthVars, accessVars, noveltyVars>>
restVars == <<havocVars, typedVars, monVars, fileVars, printVars, laterVars>>
mutVars == <<schedVars, callVars, byteVars, restVars>>
vars == <<obsVars, histVars, mutVars>>

(***************************************************************************)
(* src/event.rs                                                            *)
(***************************************************************************)
USER_STAT_NODES == "statemachine_nodes"
USER_STAT_EDGES == "statemachine_edges"

(***************************************************************************)
(* src/observer.rs                                                         *)
(***************************************************************************)
\* Bitwise or of two naturals.
RECURSIVE BitOr(_, _)
BitOr(a, b) ==
    IF a = 0 THEN b
    ELSE IF b = 0 THEN a
    ELSE (IF a % 2 = 1 \/ b % 2 = 1 THEN 1 ELSE 0) + 2 * BitOr(a \div 2, b \div 2)

\* pack_transition with the shift lost: both ids land in the lower half.
pack_transition_noshift(from, to) == <<0, BitOr(from, to)>>

\* (from as u64) << 32 | (to as u64): from is the upper half, to the lower.
pack_transition(from, to) == <<from, to>>

\* ((transition >> 32) as u32, transition as u32)
unpack_transition(transition) == <<transition[1], transition[2]>>

\* BTreeMap::get and BTreeMap::insert (insert returns the previous value).
map_get(m, k) == IF k \in DOMAIN m THEN Some(m[k]) ELSE None
map_insert(m, k, v) == [x \in (DOMAIN m) \cup {k} |-> IF x = k THEN v ELSE m[x]]

\* StateGraph::new
StateGraph_new ==
    [nodes |-> << >>, edges |-> {}, last_node |-> None, new_transitions |-> FALSE]

\* reset that forgets the edges as well.
reset_clears_edges(g) == [g EXCEPT !.edges = {}, !.last_node = None, !.new_transitions = FALSE]

\* reset that leaves last_node as the previous execution left it.
reset_keeps_last(g) == [g EXCEPT !.new_transitions = FALSE]

\* StateGraph::reset
reset(g) == [g EXCEPT !.last_node = None, !.new_transitions = FALSE]

\* add_node that numbers the nodes from 1.
add_node_from_one(g, state) ==
    LET found == map_get(g.nodes, state) IN
    IF found # None
    THEN [graph |-> g, id |-> found[1], ok |-> TRUE]
    ELSE LET next_id == Cardinality(DOMAIN g.nodes) + 1 IN
         [graph |-> [g EXCEPT !.nodes = map_insert(g.nodes, state, next_id)],
          id |-> next_id,
          ok |-> map_get(g.nodes, state) = None]

\* StateGraph::add_node: [graph, id, ok]; ok is FALSE when the assert! fails.
add_node(g, state) ==
    LET found == map_get(g.nodes, state) IN
    IF found # None
    THEN [graph |-> g, id |-> found[1], ok |-> TRUE]
    ELSE LET next_id == Cardinality(DOMAIN g.nodes) IN
         [graph |-> [g EXCEPT !.nodes = map_insert(g.nodes, state, next_id)],
          id |-> next_id,
          ok |-> map_get(g.nodes, state) = None]

\* add_edge without the old_id != id test.
add_edge_selfloop(g, id) ==
    LET old == g.last_node
        t == pack_transition(old[1], id)
        novel == IF old # None THEN t \notin g.edges ELSE FALSE
    IN [g EXCEPT !.edges = IF old # None THEN g.edges \cup {t} ELSE g.edges,
                 !.new_transitions = g.new_transitions \/ novel,
                 !.last_node = Some(id)]

\* add_edge with new_transitions assigned (=) instead of accumulated (|=).
add_edge_assign(g, id) ==
    LET old == g.last_node
        t == pack_transition(old[1], id)
        ins == old # None /\ old[1] # id
        novel == IF old # None
                 THEN IF old[1] # id THEN t \notin g.edges ELSE FALSE
                 ELSE FALSE
    IN [g EXCEPT !.edges = IF ins THEN g.edges \cup {t} ELSE g.edges,
                 !.new_transitions = novel,
                 !.last_node = Some(id)]

\* StateGraph::add_edge
add_edge(g, id) ==
    LET old == g.last_node
        t == pack_transition(old[1], id)
        ins == old # None /\ old[1] # id
        novel == IF old # None
                 THEN IF old[1] # id THEN t \notin g.edges ELSE FALSE
                 ELSE FALSE
    IN [g EXCEPT !.edges = IF ins THEN g.edges \cup {t} ELSE g.edges,
                 !.new_transitions = g.new_transitions \/ novel,
                 !.last_node = Some(id)]

\* StateObserver::had_new_transitions
had_new_transitions(g) == g.new_transitions

\* StateObserver::info
info(g) == <<Cardinality(DOMAIN g.nodes), Cardinality(g.edges)>>

(***************************************************************************)
(* History bookkeeping: what the calls made so far were, told without the  *)
(* graph.                                                                  *)
(***************************************************************************)
IsPair(s) == hPrev # None /\ hPrev[1] # s

\* The pair <<a, b>> of state values is in the edge set of g.
EdgePresent(g, a, b) ==
    /\ a \in DOMAIN g.nodes
    /\ b \in DOMAIN g.nodes
    /\ pack_transition(g.nodes[a], g.nodes[b]) \in g.edges

\* track: whether the states recorded are remembered as a trace.
HistRecord(s, track) ==
    /\ hStates' = hStates \cup {s}
    /\ hPairs' = IF IsPair(s) THEN hPairs \cup {<<hPrev[1], s>>} ELSE hPairs
    /\ hOrder' = IF s \in hStates THEN hOrder ELSE Append(hOrder, s)
    /\ hPrev' = Some(s)
    /\ hNovel' = (hNovel \/ (IsPair(s) /\ ~EdgePresent(graph, hPrev[1], s)))
    /\ hNewPair' = (hNewPair \/ (IsPair(s) /\ <<hPrev[1], s>> \notin hPairs))
    /\ hGrew' = (hGrew \/ s \notin hStates \/ (IsPair(s) /\ <<hPrev[1], s>> \notin hPairs))
    /\ hLen' = hLen + 1
    /\ hTrace' = IF track THEN Append(hTrace, s) ELSE hTrace
    /\ UNCHANGED <<hOld, hInfo0, hExecs>>

\* keep: whether the remembered earlier trace is replaced by the one just finished.
HistPreExec(keep) ==
    /\ hPrev' = None
    /\ hNovel' = FALSE
    /\ hNewPair' = FALSE
    /\ hGrew' = FALSE
    /\ hLen' = 0
    /\ hTrace' = << >>
    /\ hOld' = IF keep THEN hOld ELSE Some(hTrace)
    /\ hInfo0' = info(graph)
    /\ hExecs' = hExecs + 1
    /\ UNCHANGED <<hStates, hPairs, hOrder>>

(***************************************************************************)
(* Operations of StateObserver and StateFeedback.                          *)
(***************************************************************************)
\* StateObserver::record
record(s, track) ==
    /\ ~panicked
    /\ hLen < MaxTrace
    /\ LET n == add_node(graph, s) IN
       IF n.ok
       THEN /\ graph' = add_edge(n.graph, n.id)
            /\ panicked' = FALSE
       ELSE /\ graph' = n.graph
            /\ panicked' = TRUE
    /\ op' = "record"
    /\ HistRecord(s, track)
    /\ UNCHANGED <<ret, fired, mutVars>>

Record == \E s \in PS : record(s, FALSE)

\* Observer::pre_exec
pre_exec(K) ==
    /\ ~panicked
    /\ hExecs < MaxExecs
    /\ graph' = reset(graph)
    /\ op' = "pre_exec"
    /\ \E keep \in K : HistPreExec(keep)
    /\ UNCHANGED <<panicked, ret, fired, mutVars>>

\* Observer::post_exec
post_exec ==
    /\ ~panicked
    /\ graph' = graph
    /\ op' = "post_exec"
    /\ UNCHANGED <<panicked, ret, fired, histVars, mutVars>>

\* is_interesting firing the edge count before the node count.
is_interesting_events_swapped(g) ==
    IF had_new_transitions(g)
    THEN <<[name |-> USER_STAT_EDGES, value |-> info(g)[2]],
           [name |-> USER_STAT_NODES, value |-> info(g)[1]]>>
    ELSE << >>

\* The events StateFeedback::is_interesting fires, in order.
is_interesting_events(g) ==
    IF had_new_transitions(g)
    THEN <<[name |-> USER_STAT_NODES, value |-> info(g)[1]],
           [name |-> USER_STAT_EDGES, value |-> info(g)[2]]>>
    ELSE << >>

\* is_interesting answering whether the graph has any edge at all.
is_interesting_ret_any_edge(g) == info(g)[2] > 0

\* The value StateFeedback::is_interesting returns.
is_interesting_ret(g) == had_new_transitions(g)

\* Feedback::is_interesting.  mgr is the SimpleEventManager of the fuzzers
\* of this repository, whose fire accepts every UpdateUserStats event.
is_interesting ==
    /\ ~panicked
    /\ ret' = Some(is_interesting_ret(graph))
    /\ fired' = is_interesting_events(graph)
    /\ op' = "is_interesting"
    /\ UNCHANGED <<graph, panicked, histVars, mutVars>>

\* The observer as StateObserver::new leaves it, before any call.
ObserverInit ==
    /\ graph = StateGraph_new
    /\ panicked = FALSE
    /\ ret = None
    /\ fired = << >>
    /\ op = "new"
    /\ hStates = {}
    /\ hPairs = {}
    /\ hOrder = << >>
    /\ hPrev = None
    /\ hNovel = FALSE
    /\ hNewPair = FALSE
    /\ hGrew = FALSE
    /\ hLen = 0
    /\ hTrace = << >>
    /\ hOld = None
    /\ hInfo0 = <<0, 0>>
    /\ hExecs = 0

\* What is remembered of a mutator run.
Call(mutator, arg, before, draws) ==
    [mutator |-> mutator, arg |-> arg, before |-> before, draws |-> draws]

\* No mutator has run and no packet-level mutation is followed.
NoCall == hInput0 = << >> /\ last = None /\ hMutated = 0 /\ hCan = FALSE /\ hDraw = FALSE
NoBytes ==
    /\ bytes_self = << >>
    /\ bytes_other = << >>
    /\ max_size = 0
    /\ bytes_result = None
    /\ bytes_last = None

\* PacketHavocMutator::mutate is not running.
NoHavoc == havoc = [pc |-> "idle", iters |-> 0, packet |-> 0, i |-> 0, calls |-> 0, mutated |-> FALSE]

\* No packet of a composite type is followed.
NoTyped ==
    /\ typed_self = [type |-> "PacketType", variant |-> "A", data |-> Some(<< >>)]
    /\ typed_other = [type |-> "PacketType", variant |-> "A", data |-> Some(<< >>)]
    /\ typed_result = None
    /\ typed_op = None
    /\ typed_variant = "A"

\* A monitor without clients.
NoMonitor == client_stats = << >> /\ average = None

\* No stats file, and the clock at 0.
NoFile ==
    /\ stats_file = None
    /\ now = 0
    /\ last_update = 0
    /\ interval = 0
    /\ file_removed = FALSE

\* Nothing has been printed.
NoPrint == stdout = None

\* Nothing is loaded.
NoLoad == in_dir = << >> /\ loaded = None

\* No twin runs, nothing packed, no knobs, no accesses followed.
NoTwin == twin = None
NoPacked == packed = None
NoKnobs == knobs = None
NoAccess == access = None

\* No execution is followed for its novelty.
NoNovelty ==
    /\ exec_pc = "idle"
    /\ hInteresting = 0
    /\ published = [nodes |-> None, edges |-> None]

NoLater == NoLoad /\ NoTwin /\ NoPacked /\ NoKnobs /\ NoAccess /\ NoNovelty

NoRest == NoHavoc /\ NoTyped /\ NoMonitor /\ NoFile /\ NoPrint /\ NoLater

\* The scheduler is idle, on no packets.
SchedIdle ==
    /\ input = << >>
    /\ result = "Skipped"
    /\ pc = "idle"
    /\ mret = None
    /\ runs = 0

Init ==
    /\ ObserverInit
    /\ input = << >>
    /\ result = "Skipped"
    /\ pc = "idle"
    /\ mret = None
    /\ runs = 0
    /\ NoCall
    /\ NoBytes
    /\ NoRest

PreExec == pre_exec({TRUE})

Next ==
    \/ Record
    \/ PreExec
    \/ post_exec
    \/ is_interesting

Spec == Init /\ [][Next]_vars

(***************************************************************************)
(* Properties of the state graph and of the feedback.                      *)
(***************************************************************************)
\* A step that is a record call.
RecordStep == hLen' = hLen + 1

\* C1: info() is (number of distinct state values ever recorded, number of
\* distinct pairs (prev, cur), prev # cur, recorded consecutively in one
\* execution).
C1_InfoCountsStatesAndPairs ==
    info(graph) = <<Cardinality(hStates), Cardinality(hPairs)>>

\* A second execution has recorded three states, two of them distinct, one
\* after the other in both orders.
C1_Witness ==
    /\ hExecs >= 1
    /\ hLen = 3
    /\ Cardinality(hStates) = 2
    /\ Cardinality(hPairs) = 2
    /\ info(graph) = <<2, 2>>

\* C2: after a pre_exec, had_new_transitions() holds exactly when some pair
\* (prev, cur), prev # cur, recorded since that pre_exec was absent from the
\* edge set at the moment of its record call.
C2_FlagIffNovelPair ==
    hExecs >= 1 => (had_new_transitions(graph) <=> hNovel)

\* After a pre_exec a novel pair was recorded and then a state again.
C2_Witness ==
    /\ hExecs >= 1
    /\ hLen = 3
    /\ hNovel
    /\ had_new_transitions(graph)
    /\ Cardinality(graph.edges) = 1

\* C3: is_interesting returns true exactly when the execution just observed
\* recorded a transition that was not in the state graph before, and false
\* otherwise.
C3_InterestingIffNewTransition ==
    op = "is_interesting" => ret = Some(hNewPair)

\* is_interesting has returned false for an execution that walked an edge the
\* graph already had.
C3_Witness ==
    /\ op = "is_interesting"
    /\ ret = Some(FALSE)
    /\ hLen >= 2
    /\ hPrev # None
    /\ Cardinality(hPairs) >= 1
    /\ hExecs >= 1

\* C4: is_interesting returns true for every execution that added a node or
\* an edge to the state graph.
C4_InterestingOnNewNodeOrEdge ==
    (op = "is_interesting" /\ hGrew) => ret = Some(TRUE)

\* C5: is_interesting fires statemachine_nodes with the node count and then
\* statemachine_edges with the edge count when had_new_transitions() holds,
\* and nothing otherwise.
C5_FiresNodesThenEdges ==
    op = "is_interesting" =>
        IF had_new_transitions(graph)
        THEN /\ Len(fired) = 2
             /\ fired[1] = [name |-> "statemachine_nodes", value |-> info(graph)[1]]
             /\ fired[2] = [name |-> "statemachine_edges", value |-> info(graph)[2]]
        ELSE fired = << >>

\* is_interesting has fired the counts of a graph of two nodes and one edge.
C5_Witness ==
    /\ op = "is_interesting"
    /\ had_new_transitions(graph)
    /\ Len(fired) = 2
    /\ fired[1].value = 2
    /\ fired[2].value = 1

\* Every node of g is a node of h with the same id, every edge of g an edge of h.
GraphWithin(g, h) ==
    /\ \A s \in DOMAIN g.nodes : s \in DOMAIN h.nodes /\ h.nodes[s] = g.nodes[s]
    /\ g.edges \subseteq h.edges

\* C6: pre_exec clears last_id and new_transitions and leaves nodes and edges
\* as they are, post_exec leaves them as they are, and no operation removes a
\* node or an edge.
C6_PreExecKeepsGraph ==
    [][/\ (hExecs' = hExecs + 1) =>
            /\ graph'.nodes = graph.nodes
            /\ graph'.edges = graph.edges
            /\ graph'.last_node = None
            /\ graph'.new_transitions = FALSE
       /\ (op' = "post_exec") =>
            /\ graph'.nodes = graph.nodes
            /\ graph'.edges = graph.edges
       /\ GraphWithin(graph, graph')]_vars

\* pre_exec has run on a graph that has nodes and edges.
C6_Witness ==
    /\ op = "pre_exec"
    /\ graph.edges # {}
    /\ DOMAIN graph.nodes # {}
    /\ graph.last_node = None

\* C7: a record call with the state of the previous record call of the same
\* execution leaves the edge set and new_transitions as they are; no edge
\* has equal source and destination ids; recording one state value any
\* number of times gives 1 node and 0 edges.
C7_NoSelfLoop ==
    /\ [][(RecordStep /\ hPrev # None /\ hPrev' = hPrev) =>
            /\ graph'.edges = graph.edges
            /\ graph'.new_transitions = graph.new_transitions]_vars
    /\ [](\A e \in graph.edges : unpack_transition(e)[1] # unpack_transition(e)[2])
    /\ [](Cardinality(hStates) = 1 => info(graph) = <<1, 0>>)

\* One state value has been recorded three times in one execution.
C7_Witness ==
    /\ hLen = 3
    /\ hExecs = 0
    /\ Cardinality(hStates) = 1
    /\ info(graph) = <<1, 0>>

\* C9: the k-th distinct state value recorded has id k-1, the ids are exactly
\* 0 .. |nodes|-1 with no id shared, an id never changes, and the assertion
\* of add_node does not fail.
C9_DenseStableIds ==
    /\ [](/\ ~panicked
          /\ DOMAIN graph.nodes = hStates
          /\ \A k \in 1..Len(hOrder) : graph.nodes[hOrder[k]] = k - 1
          /\ {graph.nodes[s] : s \in DOMAIN graph.nodes} = 0..(Cardinality(DOMAIN graph.nodes) - 1)
          /\ \A s1, s2 \in DOMAIN graph.nodes : graph.nodes[s1] = graph.nodes[s2] => s1 = s2)
    /\ [][\A s \in DOMAIN graph.nodes :
            s \in DOMAIN graph'.nodes /\ graph'.nodes[s] = graph.nodes[s]]_vars

\* Every state value has an id and a later execution has recorded the first
\* one again.
C9_Witness ==
    /\ Cardinality(DOMAIN graph.nodes) = NumStates
    /\ hExecs >= 1
    /\ hPrev = Some(hOrder[1])
    /\ graph.last_node = Some(0)

(***************************************************************************)
(* Replay specification: executions whose traces are remembered, so that   *)
(* an execution can be compared with an earlier one.                       *)
(***************************************************************************)
ReplayRecord == \E s \in PS : record(s, TRUE)

ReplayPreExec == pre_exec(BOOLEAN)

ReplayNext ==
    \/ ReplayRecord
    \/ ReplayPreExec

ReplaySpec == Init /\ [][ReplayNext]_vars

\* C8: an execution that records the trace of an earlier execution leaves the
\* node count and the edge count as they were at its pre_exec and ends with
\* had_new_transitions() false.
C8_ReplayAddsNothing ==
    (hExecs >= 1 /\ hOld # None /\ hTrace = hOld[1]) =>
        /\ info(graph) = hInfo0
        /\ ~had_new_transitions(graph)

\* The trace of an earlier execution, three states with two transitions, has
\* been recorded again.
C8_Witness ==
    /\ hExecs >= 1
    /\ hOld # None
    /\ hTrace = hOld[1]
    /\ Len(hTrace) = 3
    /\ info(graph) = <<2, 2>>

(***************************************************************************)
(* Packets and packet sequences.  A packet is a BytesInput, a Vec<u8>; an  *)
(* input is its Vec of packets.  Positions are counted from 0 as in the    *)
(* source.                                                                 *)
(***************************************************************************)
\* Number of mutators in the tuple given to PacketMutationScheduler::new.
NumMutations == 7
\* Upper bound (exclusive) of the number of stacked havoc mutations.
HavocMaxIters == 16

SeqsUpTo(S, n) == UNION {[1..k -> S] : k \in 0..n}

Packets == SeqsUpTo(Byte, MaxBytes)
Inputs == SeqsUpTo(Packets, MaxPackets)

\* Rand::below(upper_bound_excl): 0 when the bound is 0 or 1.
Below(n) == IF n <= 1 THEN {0} ELSE 0..(n - 1)

Min(a, b) == IF a <= b THEN a ELSE b
Max(a, b) == IF a >= b THEN a ELSE b

\* v[lo..hi]
Slice(v, lo, hi) == SubSeq(v, lo + 1, hi)
\* Vec::remove(i), Vec::insert(i, x), slice::swap(i, j), v[i] = x
VecRemove(v, i) == SubSeq(v, 1, i) \o SubSeq(v, i + 2, Len(v))
VecInsert_overwrite(v, i, x) == SubSeq(v, 1, i) \o <<x>> \o SubSeq(v, i + 2, Len(v))
VecInsert(v, i, x) == SubSeq(v, 1, i) \o <<x>> \o SubSeq(v, i + 1, Len(v))
VecSwap(v, i, j) ==
    [k \in 1..Len(v) |-> IF k = i + 1 THEN v[j + 1] ELSE IF k = j + 1 THEN v[i + 1] ELSE v[k]]
VecSet(v, i, x) == [v EXCEPT ![i + 1] = x]
\* Vec::resize(n, x)
VecResize(v, n, x) ==
    IF n <= Len(v) THEN SubSeq(v, 1, n) ELSE v \o [k \in 1..(n - Len(v)) |-> x]
\* slice::copy_within that moves nothing.
CopyWithin_nothing(v, lo, hi, dest) == v
\* slice::copy_within(lo..hi, dest)
CopyWithin(v, lo, hi, dest) ==
    [k \in 1..Len(v) |-> IF dest < k /\ k <= dest + (hi - lo) THEN v[lo + (k - dest)] ELSE v[k]]
\* v[lo..lo + src.len()].copy_from_slice(src)
CopyFromSlice(v, lo, src) ==
    [k \in 1..Len(v) |-> IF lo < k /\ k <= lo + Len(src) THEN src[k - lo] ELSE v[k]]

\* What a mutate call leaves behind: its MutationResult, the value mutated,
\* and the values Rand::below returned to the call, in the order drawn.
Out(r, v, d) == [result |-> r, value |-> v, draws |-> d]

(***************************************************************************)
(* The mutations of one packet (BytesInput).  Each operator is the set of  *)
(* outcomes over the random draws of the call.                             *)
(***************************************************************************)
\* HasSpliceMutation::mutate_splice without the test for empty bytes of other.
mutate_splice_empty_other(self, other) ==
    LET self_len == Len(self)
        other_len == Len(other)
    IN IF self_len = 0
       THEN {Out("Skipped", self, << >>)}
       ELSE {LET len == other_len - from
                 grown == IF to + len > self_len THEN VecResize(self, to + len, 0) ELSE self
             IN Out("Mutated", CopyFromSlice(grown, to, Slice(other, from, from + len)),
                    <<to, from>>)
             : to \in Below(self_len), from \in Below(other_len)}

\* HasSpliceMutation::mutate_splice
mutate_splice(self, other) ==
    LET self_len == Len(self)
        other_len == Len(other)
    IN IF self_len = 0 \/ other_len = 0
       THEN {Out("Skipped", self, << >>)}
       ELSE {LET len == other_len - from
                 grown == IF to + len > self_len THEN VecResize(self, to + len, 0) ELSE self
             IN Out("Mutated", CopyFromSlice(grown, to, Slice(other, from, from + len)),
                    <<to, from>>)
             : to \in Below(self_len), from \in Below(other_len)}

\* HasCrossoverInsertMutation::mutate_crossover_insert
mutate_crossover_insert(self, other) ==
    LET self_len == Len(self)
        other_len == Len(other)
    IN IF self_len = 0 \/ other_len = 0
       THEN {Out("Skipped", self, << >>)}
       ELSE UNION {
              {LET len == l + 1
                   grown == VecResize(self, self_len + len, 0)
                   moved == CopyWithin(grown, to, self_len, to + len)
               IN Out("Mutated", CopyFromSlice(moved, to, Slice(other, from, from + len)),
                      <<from, to, l>>)
               : l \in Below(other_len - from)}
              : from \in Below(other_len), to \in Below(self_len)}

\* HasCrossoverReplaceMutation::mutate_crossover_replace copying from the
\* start of other.
mutate_crossover_replace_from_start(self, other) ==
    LET self_len == Len(self)
        other_len == Len(other)
    IN IF self_len = 0 \/ other_len = 0
       THEN {Out("Skipped", self, << >>)}
       ELSE UNION {
              {LET len == 1 + l
               IN Out("Mutated", CopyFromSlice(self, to, Slice(other, 0, len)),
                      <<from, to, l>>)
               : l \in Below(Min(other_len - from, self_len - to))}
              : from \in Below(other_len), to \in Below(self_len)}

\* HasCrossoverReplaceMutation::mutate_crossover_replace
mutate_crossover_replace(self, other) ==
    LET self_len == Len(self)
        other_len == Len(other)
    IN IF self_len = 0 \/ other_len = 0
       THEN {Out("Skipped", self, << >>)}
       ELSE UNION {
              {LET len == 1 + l
               IN Out("Mutated", CopyFromSlice(self, to, Slice(other, from, from + len)),
                      <<from, to, l>>)
               : l \in Below(Min(other_len - from, self_len - to))}
              : from \in Below(other_len), to \in Below(self_len)}

\* HasHavocMutations::mutate_packet with one of libafl's byte mutators: the
\* mutator skips, or reports Mutated and leaves some bytes behind.  The draws
\* of libafl's mutators are not followed.
mutate_packet(p) ==
    {Out("Skipped", p, << >>)} \cup {Out("Mutated", q, << >>) : q \in Packets}

\* One more iteration of the loop of PacketHavocMutator::mutate, from each
\* (result, packet) of S.
HavocStep(S) ==
    UNION {{Out(IF o.result = "Mutated" THEN "Mutated" ELSE s.result, o.value, << >>)
            : o \in mutate_packet(s.value)} : s \in S}

\* The (result, packet) pairs the loop can end with after 0, 1, ... or n
\* iterations from S.
RECURSIVE HavocLoop(_, _)
HavocLoop(n, S) ==
    IF n = 0 THEN S
    ELSE LET T == HavocStep(S) IN
         IF T = S THEN S ELSE S \cup HavocLoop(n - 1, T)

(***************************************************************************)
(* The packet-sequence mutators.  Each operator is the set of outcomes of  *)
(* Mutator::mutate on the packets inp over the random draws of the call.   *)
(***************************************************************************)
\* PacketDeleteMutator::new without the promotion of min_packets to 1.
PacketDeleteMutator_new_unpromoted(min_packets) == min_packets

\* PacketDeleteMutator::new: the field min_packets of the mutator built.
PacketDeleteMutator_new(min_packets) == Max(1, min_packets)

\* PacketSpliceMutator::new: the field min_packets of the mutator built.
PacketSpliceMutator_new(min_packets) == Max(1, min_packets)

\* PacketDuplicateMutator::new: the field max_packets of the mutator built.
PacketDuplicateMutator_new(max_packets) == max_packets

\* PacketReorderMutator::mutate with from and to from another source than
\* the PRNG of the state.
PacketReorderMutator_mutate_unseeded(inp) ==
    IF Len(inp) <= 1
    THEN {Out("Skipped", inp, << >>)}
    ELSE {IF from = to
          THEN Out("Skipped", inp, << >>)
          ELSE Out("Mutated", VecSwap(inp, from, to), << >>)
          : from \in Below(Len(inp)), to \in Below(Len(inp))}

\* PacketReorderMutator::mutate
PacketReorderMutator_mutate(inp) ==
    IF Len(inp) <= 1
    THEN {Out("Skipped", inp, << >>)}
    ELSE {IF from = to
          THEN Out("Skipped", inp, <<from, to>>)
          ELSE Out("Mutated", VecSwap(inp, from, to), <<from, to>>)
          : from \in Below(Len(inp)), to \in Below(Len(inp))}

\* PacketDeleteMutator::mutate
PacketDeleteMutator_mutate(min, inp) ==
    IF Len(inp) <= min
    THEN {Out("Skipped", inp, << >>)}
    ELSE {Out("Mutated", VecRemove(inp, idx), <<idx>>) : idx \in Below(Len(inp))}

\* PacketDuplicateMutator::mutate that goes on at max_packets packets.
PacketDuplicateMutator_mutate_at_max(max, inp) ==
    IF Len(inp) > max
    THEN {Out("Skipped", inp, << >>)}
    ELSE {IF from = to
          THEN Out("Skipped", inp, <<from, to>>)
          ELSE Out("Mutated", VecInsert(inp, to, inp[from + 1]), <<from, to>>)
          : from \in Below(Len(inp)), to \in Below(Len(inp) + 1)}

\* PacketDuplicateMutator::mutate inserting the clone at from.
PacketDuplicateMutator_mutate_insert_at_from(max, inp) ==
    IF Len(inp) >= max
    THEN {Out("Skipped", inp, << >>)}
    ELSE {IF from = to
          THEN Out("Skipped", inp, <<from, to>>)
          ELSE Out("Mutated", VecInsert(inp, from, inp[from + 1]), <<from, to>>)
          : from \in Below(Len(inp)), to \in Below(Len(inp) + 1)}

\* PacketDuplicateMutator::mutate
PacketDuplicateMutator_mutate(max, inp) ==
    IF Len(inp) >= max
    THEN {Out("Skipped", inp, << >>)}
    ELSE {IF from = to
          THEN Out("Skipped", inp, <<from, to>>)
          ELSE Out("Mutated", VecInsert(inp, to, inp[from + 1]), <<from, to>>)
          : from \in Below(Len(inp)), to \in Below(Len(inp) + 1)}

\* PacketCrossoverInsertMutator::mutate that mutates the packet at other.
PacketCrossoverInsertMutator_mutate_into_other(inp) ==
    IF Len(inp) <= 1
    THEN {Out("Skipped", inp, << >>)}
    ELSE UNION {
           IF packet = other
           THEN {Out("Skipped", inp, <<packet, other>>)}
           ELSE {Out(o.result, VecSet(inp, other, o.value), <<packet, other>> \o o.draws)
                 : o \in mutate_crossover_insert(inp[packet + 1], inp[other + 1])}
           : packet \in Below(Len(inp)), other \in Below(Len(inp))}

\* PacketCrossoverInsertMutator::mutate
PacketCrossoverInsertMutator_mutate(inp) ==
    IF Len(inp) <= 1
    THEN {Out("Skipped", inp, << >>)}
    ELSE UNION {
           IF packet = other
           THEN {Out("Skipped", inp, <<packet, other>>)}
           ELSE {Out(o.result, VecSet(inp, packet, o.value), <<packet, other>> \o o.draws)
                 : o \in mutate_crossover_insert(inp[packet + 1], inp[other + 1])}
           : packet \in Below(Len(inp)), other \in Below(Len(inp))}

\* PacketCrossoverReplaceMutator::mutate
PacketCrossoverReplaceMutator_mutate(inp) ==
    IF Len(inp) <= 1
    THEN {Out("Skipped", inp, << >>)}
    ELSE UNION {
           IF packet = other
           THEN {Out("Skipped", inp, <<packet, other>>)}
           ELSE {Out(o.result, VecSet(inp, packet, o.value), <<packet, other>> \o o.draws)
                 : o \in mutate_crossover_replace(inp[packet + 1], inp[other + 1])}
           : packet \in Below(Len(inp)), other \in Below(Len(inp))}

\* PacketSpliceMutator::mutate without the re-insertion of other.
PacketSpliceMutator_mutate_drop_other(min, inp) ==
    IF Len(inp) <= min
    THEN {Out("Skipped", inp, << >>)}
    ELSE UNION {
           LET other == inp[packet + 2]
               removed == VecRemove(inp, packet + 1)
           IN {Out(o.result, VecSet(removed, packet, o.value), <<packet>> \o o.draws)
               : o \in mutate_splice(removed[packet + 1], other)}
           : packet \in Below(Len(inp) - 1)}

\* PacketSpliceMutator::mutate with the packet drawn removed as other and the
\* packet behind it spliced.
PacketSpliceMutator_mutate_remove_drawn(min, inp) ==
    IF Len(inp) <= min
    THEN {Out("Skipped", inp, << >>)}
    ELSE UNION {
           LET other == inp[packet + 1]
               removed == VecRemove(inp, packet)
           IN {LET spliced == VecSet(removed, packet, o.value)
               IN IF o.result = "Skipped"
                  THEN Out(o.result, VecInsert(spliced, packet, other),
                           <<packet>> \o o.draws)
                  ELSE Out(o.result, spliced, <<packet>> \o o.draws)
               : o \in mutate_splice(removed[packet + 1], other)}
           : packet \in Below(Len(inp) - 1)}

\* PacketSpliceMutator::mutate with other re-inserted at packet.
PacketSpliceMutator_mutate_reinsert_before(min, inp) ==
    IF Len(inp) <= min
    THEN {Out("Skipped", inp, << >>)}
    ELSE UNION {
           LET other == inp[packet + 2]
               removed == VecRemove(inp, packet + 1)
           IN {LET spliced == VecSet(removed, packet, o.value)
               IN IF o.result = "Skipped"
                  THEN Out(o.result, VecInsert(spliced, packet, other),
                           <<packet>> \o o.draws)
                  ELSE Out(o.result, spliced, <<packet>> \o o.draws)
               : o \in mutate_splice(removed[packet + 1], other)}
           : packet \in Below(Len(inp) - 1)}

\* PacketSpliceMutator::mutate
PacketSpliceMutator_mutate(min, inp) ==
    IF Len(inp) <= min
    THEN {Out("Skipped", inp, << >>)}
    ELSE UNION {
           LET other == inp[packet + 2]
               removed == VecRemove(inp, packet + 1)
           IN {LET spliced == VecSet(removed, packet, o.value)
               IN IF o.result = "Skipped"
                  THEN Out(o.result, VecInsert(spliced, packet + 1, other),
                           <<packet>> \o o.draws)
                  ELSE Out(o.result, spliced, <<packet>> \o o.draws)
               : o \in mutate_splice(removed[packet + 1], other)}
           : packet \in Below(Len(inp) - 1)}

\* PacketHavocMutator::mutate.  Of its draws only the packet is followed.
PacketHavocMutator_mutate(inp) ==
    IF Len(inp) = 0
    THEN {Out("Skipped", inp, << >>)}
    ELSE UNION {
           {Out(s.result, VecSet(inp, packet, s.value), <<packet>>)
            : s \in HavocLoop(HavocMaxIters - 1, {Out("Skipped", inp[packet + 1], << >>)})}
           : packet \in Below(Len(inp))}

(***************************************************************************)
(* src/scheduler.rs                                                        *)
(***************************************************************************)
\* The mutators of the tuple the fuzzers of lib.rs pass to
\* PacketMutationScheduler::new, each with the argument of its constructor
\* (0 where new takes none).
mutations == <<
    [mutator |-> "Havoc", arg |-> 0],
    [mutator |-> "Reorder", arg |-> 0],
    [mutator |-> "Splice", arg |-> SpliceMinArg],
    [mutator |-> "CrossoverInsert", arg |-> 0],
    [mutator |-> "CrossoverReplace", arg |-> 0],
    [mutator |-> "Delete", arg |-> DeleteMinArg],
    [mutator |-> "Duplicate", arg |-> DuplicateMaxArg] >>

\* Mutator::mutate of the mutator of that name built by new(arg).
Mutator_mutate(mutator, arg, inp) ==
    CASE mutator = "Havoc" -> PacketHavocMutator_mutate(inp)
      [] mutator = "Reorder" -> PacketReorderMutator_mutate(inp)
      [] mutator = "Splice" -> PacketSpliceMutator_mutate(PacketSpliceMutator_new(arg), inp)
      [] mutator = "CrossoverInsert" -> PacketCrossoverInsertMutator_mutate(inp)
      [] mutator = "CrossoverReplace" -> PacketCrossoverReplaceMutator_mutate(inp)
      [] mutator = "Delete" -> PacketDeleteMutator_mutate(PacketDeleteMutator_new(arg), inp)
      [] mutator = "Duplicate" -> PacketDuplicateMutator_mutate(PacketDuplicateMutator_new(arg), inp)

\* MutatorsTuple::get_and_mutate on that tuple.
get_and_mutate(mutation, inp) ==
    Mutator_mutate(mutations[mutation + 1].mutator, mutations[mutation + 1].arg, inp)

\* PacketMutationScheduler::schedule drawing index 1 (Reorder) every time.
schedule_stuck == {1}

\* PacketMutationScheduler::schedule
schedule == Below(NumMutations)

\* The loop test of scheduled_mutate, inverted.
loop_test_inverted(r) == r # "Skipped"

\* The loop test of scheduled_mutate: while result == MutationResult::Skipped
loop_test(r) == r = "Skipped"

\* The inputs scheduler invocations start from.
SchedInputs == SeqsUpTo(Packets, SchedMaxPackets)

\* Some mutator of the tuple returns Mutated on inp for some draws (the
\* tuple is gone through from its end).
CanMutate(inp) ==
    \E k \in 1..NumMutations :
        \E o \in get_and_mutate(NumMutations - k, inp) : o.result = "Mutated"

\* Some draw of schedule and of the mutator it schedules returns Mutated on inp.
CanDrawMutated(inp) ==
    \E k \in 1..NumMutations :
        /\ NumMutations - k \in schedule
        /\ \E o \in get_and_mutate(NumMutations - k, inp) : o.result = "Mutated"

\* PacketMutationScheduler::mutate is called: scheduled_mutate sets result.
mutate ==
    /\ pc \in {"idle", "returned"}
    /\ input \in SchedInputs
    /\ result' = "Skipped"
    /\ pc' = "loop"
    /\ mret' = None
    /\ runs' = 0
    /\ hInput0' = input
    /\ last' = None
    /\ hMutated' = 0
    /\ hCan' = CanMutate(input)
    /\ hDraw' = CanDrawMutated(input)
    /\ UNCHANGED <<input, obsVars, histVars, byteVars, restVars>>

\* One iteration of the loop of scheduled_mutate.
scheduled_mutate_iteration ==
    /\ pc = "loop"
    /\ loop_test(result)
    /\ runs' = Min(runs + 1, MaxRuns)
    /\ \E mutation \in schedule :
         \E o \in get_and_mutate(mutation, input) :
            /\ input' = o.value
            /\ result' = o.result
            /\ last' = IF o.result = "Mutated"
                       THEN Some(Call(mutations[mutation + 1].mutator,
                                      mutations[mutation + 1].arg, input, o.draws))
                       ELSE last
            /\ hMutated' = IF o.result = "Mutated" THEN hMutated + 1 ELSE hMutated
    /\ UNCHANGED <<pc, mret, hInput0, hCan, hDraw, obsVars, histVars, byteVars, restVars>>

\* scheduled_mutate leaves the loop and returns Ok(result).
scheduled_mutate_return ==
    /\ pc = "loop"
    /\ ~loop_test(result)
    /\ mret' = Some(result)
    /\ pc' = "returned"
    /\ UNCHANGED <<input, result, runs, callVars, obsVars, histVars, byteVars, restVars>>

SchedInit ==
    /\ ObserverInit
    /\ input \in SchedInputs
    /\ result = "Skipped"
    /\ pc = "idle"
    /\ mret = None
    /\ runs = 0
    /\ hInput0 = input
    /\ last = None
    /\ hMutated = 0
    /\ hCan = FALSE
    /\ hDraw = FALSE
    /\ NoBytes
    /\ NoRest

SchedNext ==
    \/ mutate
    \/ scheduled_mutate_iteration
    \/ scheduled_mutate_return

SchedSpec == SchedInit /\ [][SchedNext]_vars

\* C10: a mutate call that returns returns Mutated, and the scheduler does not
\* return while the mutator it ran last returned Skipped: it runs a mutator
\* again.
C10_ReturnsMutated ==
    /\ [](pc = "returned" => mret = Some("Mutated"))
    /\ [][(pc = "loop" /\ result = "Skipped") => (pc' = "loop" /\ mret' = None)]_vars

\* mutate has returned Mutated after a mutator that returned Skipped and one
\* more that returned Mutated.
C10_Witness ==
    /\ pc = "returned"
    /\ mret = Some("Mutated")
    /\ runs = 2

\* C11: one scheduler invocation applies exactly one real mutation.  While
\* the loop of scheduled_mutate runs on, every mutator run so far returned
\* Skipped and the packets are those the invocation began with; when the
\* invocation has returned, exactly one run returned Mutated, that run was the
\* last one, it began from the original packets, and the packets are what
\* that one run of that mutator with its draws makes of the original packets.
C11_OneRealMutation ==
    /\ (pc = "loop" /\ result = "Skipped") => (input = hInput0 /\ hMutated = 0)
    /\ (pc = "loop" /\ result = "Skipped") => last = None
    /\ pc = "returned" =>
          /\ hMutated = 1
          /\ last # None
          /\ last[1].before = hInput0
          /\ Out("Mutated", input, last[1].draws)
                \in Mutator_mutate(last[1].mutator, last[1].arg, hInput0)

\* An invocation that began with two packets, the first of them empty, has
\* returned after a run that returned Skipped and a later run that changed
\* the packets.
C11_Witness ==
    /\ pc = "returned"
    /\ runs = 2
    /\ hMutated = 1
    /\ input # hInput0
    /\ Len(hInput0) = 2
    /\ hInput0[1] = << >>

(***************************************************************************)
(* The scheduler under fair random choices.  A mutator run that returns    *)
(* Mutated is weakly fair: if from some iteration on such a run is         *)
(* possible at every iteration, the draws that make it are made at some    *)
(* iteration.  A loop whose test fails is left.                            *)
(***************************************************************************)
\* A run of scheduled_mutate_iteration that returns Mutated.
MutatedRun == scheduled_mutate_iteration /\ result' = "Mutated"

\* Where MutatedRun is enabled: the loop goes on and some draw returns
\* Mutated on the packets, which are those the invocation began with.
MutatedRunEnabled == pc = "loop" /\ loop_test(result) /\ hDraw

\* MutatedRunEnabled is the enabling condition of MutatedRun.
MutatedRunEnabledIsEnabled == MutatedRunEnabled <=> ENABLED <<MutatedRun>>_vars

\* Of the steps of SchedNext, those of MutatedRun are the ones that take
\* result from Skipped to Mutated.
MutatedStep == pc = "loop" /\ loop_test(result) /\ result' = "Mutated"
MutatedStepIsMutatedRun == [][MutatedStep <=> MutatedRun]_vars

\* WF_vars(MutatedRun), written with its enabling condition and its steps,
\* and WF_vars(scheduled_mutate_return).
FairSchedSpec ==
    /\ SchedSpec
    /\ (<>[]MutatedRunEnabled => []<><<MutatedStep>>_vars)
    /\ WF_vars(scheduled_mutate_return)

\* C12: under fair random choices, an invocation whose loop runs on packets
\* for which some mutator of the tuple can return Mutated eventually returns.
C12_InvocationReturns ==
    (pc = "loop" /\ loop_test(result) /\ hCan) ~> (pc = "returned")

\* While the loop goes on, hCan says whether some mutator of the tuple can
\* return Mutated on the current packets.
CanMutateCurrent ==
    (pc = "loop" /\ loop_test(result)) => (hCan = CanMutate(input))

\* An invocation on a single packet, where the structural mutators skip, has
\* returned after two or more runs.
C12_Witness ==
    /\ pc = "returned"
    /\ Len(hInput0) = 1
    /\ CanMutate(hInput0)
    /\ runs >= 2
    /\ last # None

(***************************************************************************)
(* The packet-sequence mutators one by one: a mutator is built by new(arg) *)
(* and its mutate is called once on an input.                              *)
(***************************************************************************)
\* The arguments passed to PacketDeleteMutator::new and
\* PacketSpliceMutator::new, and those passed to PacketDuplicateMutator::new.
MinArgs == 0..MaxPackets
MaxArgs == 0..(MaxPackets + 1)

\* Mutator::mutate of the mutator of that name built by new(arg), on input.
Run(mutator, arg) ==
    /\ pc = "idle"
    /\ last = None
    /\ \E o \in Mutator_mutate(mutator, arg, input) :
          /\ input' = o.value
          /\ result' = o.result
          /\ last' = Some(Call(mutator, arg, input, o.draws))
    /\ UNCHANGED <<pc, mret, runs, hInput0, hMutated, hCan, hDraw, obsVars, histVars, byteVars, restVars>>

PacketHavocMutator == Run("Havoc", 0)
PacketReorderMutator == Run("Reorder", 0)
PacketSpliceMutator == \E arg \in MinArgs : Run("Splice", arg)
PacketCrossoverInsertMutator == Run("CrossoverInsert", 0)
PacketCrossoverReplaceMutator == Run("CrossoverReplace", 0)
PacketDeleteMutator == \E arg \in MinArgs : Run("Delete", arg)
PacketDuplicateMutator == \E arg \in MaxArgs : Run("Duplicate", arg)

MutatorInit ==
    /\ ObserverInit
    /\ input \in Inputs
    /\ result = "Skipped"
    /\ pc = "idle"
    /\ mret = None
    /\ runs = 0
    /\ NoCall
    /\ NoBytes
    /\ NoRest

MutatorNext ==
    \/ PacketHavocMutator
    \/ PacketReorderMutator
    \/ PacketSpliceMutator
    \/ PacketCrossoverInsertMutator
    \/ PacketCrossoverReplaceMutator
    \/ PacketDeleteMutator
    \/ PacketDuplicateMutator

MutatorSpec == MutatorInit /\ [][MutatorNext]_vars

\* The mutator that ran, its constructor argument, the packets it was given
\* and its draws.
Ran(mutator) == last # None /\ last[1].mutator = mutator
before == last[1].before
draws == last[1].draws
arg_given == last[1].arg

\* The precondition of a packet-sequence mutator built with argument arg, on
\* packets inp, as the mutator table states it.
Precondition(mutator, arg, inp) ==
    CASE mutator \in {"Reorder", "CrossoverInsert", "CrossoverReplace"} -> Len(inp) >= 2
      [] mutator \in {"Delete", "Splice"} -> Len(inp) > Max(1, arg)
      [] mutator = "Duplicate" -> Len(inp) < arg
      [] mutator = "Havoc" -> Len(inp) # 0

\* C13: a mutator whose precondition does not hold on the packets it is given
\* returns Skipped and leaves them unchanged; every mutator returns Skipped
\* on the empty sequence and leaves it empty.
C13_SkipsWithoutPrecondition ==
    last # None =>
        /\ ~Precondition(last[1].mutator, arg_given, before) =>
              (result = "Skipped" /\ input = before)
        /\ before = << >> => (result = "Skipped" /\ input = << >>)

\* Delete built by new(0) has skipped on a single packet.
C13_Witness ==
    /\ Ran("Delete")
    /\ arg_given = 0
    /\ Len(before) = 1
    /\ result = "Skipped"
    /\ input = before

\* C14: whenever a packet-sequence mutator returns Skipped, the packets
\* after the call are the packets before it, same packets in the same order
\* with the same bytes; so it is for Splice when the splice of the two packets
\* returns Skipped after other was removed.
C14_SkippedLeavesPackets ==
    (last # None /\ result = "Skipped") => input = before

\* Splice drew a packet of three, removed the packet behind it, an empty
\* one, and skipped after the splice of the two packets skipped.
C14_Witness ==
    /\ Ran("Splice")
    /\ result = "Skipped"
    /\ draws = <<0>>
    /\ Len(before) = 3
    /\ before[1] # << >>
    /\ before[2] = << >>
    /\ before[1] # before[3]
    /\ input = before

\* C15: when they return Mutated, Reorder leaves the number of packets
\* unchanged, Delete makes it one less and Duplicate one more.
C15_LengthAfterMutated ==
    (last # None /\ result = "Mutated") =>
        /\ Ran("Reorder") => Len(input) = Len(before)
        /\ Ran("Delete") => Len(input) = Len(before) - 1
        /\ Ran("Duplicate") => Len(input) = Len(before) + 1

\* Duplicate has inserted a clone in front of the last of two packets.
C15_Witness ==
    /\ Ran("Duplicate")
    /\ result = "Mutated"
    /\ Len(before) = 2
    /\ draws = <<0, 1>>
    /\ Len(input) = 3

\* w is v without the packet at index i, the others in their order.
RemovedAt(v, w, i) ==
    /\ 0 <= i /\ i < Len(v)
    /\ Len(w) = Len(v) - 1
    /\ \A k \in 1..Len(w) : w[k] = IF k <= i THEN v[k] ELSE v[k + 1]

\* w is v with x inserted at index i, the packets of v in their order.
InsertedAt(v, w, i, x) ==
    /\ 0 <= i /\ i <= Len(v)
    /\ Len(w) = Len(v) + 1
    /\ w[i + 1] = x
    /\ \A k \in 1..Len(v) : v[k] = IF k <= i THEN w[k] ELSE w[k + 1]

\* C16: Delete built with min = k >= 1 returns Skipped on k packets, and on
\* k + 1 packets returns Mutated with exactly one packet removed and the
\* others in their order.  Delete::new(0) and Splice::new(0) behave as
\* new(1): what they do to the packets is what the mutator built by new(1)
\* does with the same draws.  Delete never empties a sequence.
C16_DeleteMinimum ==
    /\ (Ran("Delete") /\ arg_given >= 1 /\ Len(before) = arg_given) =>
          (result = "Skipped" /\ input = before)
    /\ (Ran("Delete") /\ arg_given >= 1 /\ Len(before) = arg_given + 1) =>
          (result = "Mutated" /\ Len(draws) = 1 /\ RemovedAt(before, input, draws[1]))
    /\ ((Ran("Delete") \/ Ran("Splice")) /\ arg_given = 0) =>
          Out(result, input, draws) \in Mutator_mutate(last[1].mutator, 1, before)
    /\ (Ran("Delete") /\ result = "Mutated") => input # << >>
    /\ (Ran("Delete") /\ Len(before) = 1) => (result = "Skipped" /\ input = before)

\* Delete built by new(2) has removed the middle one of three packets.
C16_Witness ==
    /\ Ran("Delete")
    /\ arg_given = 2
    /\ Len(before) = 3
    /\ result = "Mutated"
    /\ draws = <<1>>
    /\ before[1] # before[3]
    /\ input = <<before[1], before[3]>>

C18_SpliceMergesNeighbours ==
    (Ran("Splice") /\ result = "Mutated") =>
        /\ Len(draws) = 3
        /\ 0 <= draws[1] /\ draws[1] < Len(before) - 1
        /\ Len(input) = Len(before) - 1
        /\ Out("Mutated", input[draws[1] + 1], <<draws[2], draws[3]>>)
              \in mutate_splice(before[draws[1] + 1], before[draws[1] + 2])
        /\ \A k \in 1..Len(input) :
              /\ k < draws[1] + 1 => input[k] = before[k]
              /\ k > draws[1] + 1 => input[k] = before[k + 1]

\* Splice has spliced the first two of three packets, of which the first
\* and the last differ, and the last is now the second.
C18_Witness ==
    /\ Ran("Splice")
    /\ result = "Mutated"
    /\ Len(before) = 3
    /\ draws[1] = 0
    /\ before[1] # before[2]
    /\ before[2] # before[3]
    /\ input = <<before[2], before[3]>>

(***************************************************************************)
(* The packet-level mutations of BytesInput one by one: one call of        *)
(* mutate_splice, mutate_crossover_insert or mutate_crossover_replace on   *)
(* self with other, in a state whose max_size is max_size.                 *)
(***************************************************************************)
ByteVecs == SeqsUpTo(Byte, MaxVecLen)

\* What is remembered of a packet-level call; again says that it was not the
\* first call.
BytesCall(operation, self, ds, again) ==
    [operation |-> operation, before |-> self, draws |-> ds, again |-> again]

\* A packet-level call with the outcomes given.  The calls followed are a
\* first call and the calls that come after calls that returned Skipped.
BytesRun(operation, outcomes) ==
    /\ bytes_last = None \/ bytes_result = Some("Skipped")
    /\ \E o \in outcomes :
          /\ bytes_self' = o.value
          /\ bytes_result' = Some(o.result)
          /\ bytes_last' = Some(BytesCall(operation, bytes_self, o.draws, bytes_last # None))
    /\ UNCHANGED <<bytes_other, max_size, obsVars, histVars, schedVars, callVars, restVars>>

Splice == BytesRun("mutate_splice", mutate_splice(bytes_self, bytes_other))
CrossoverInsert ==
    BytesRun("mutate_crossover_insert", mutate_crossover_insert(bytes_self, bytes_other))
CrossoverReplace ==
    BytesRun("mutate_crossover_replace", mutate_crossover_replace(bytes_self, bytes_other))

BytesInit ==
    /\ ObserverInit
    /\ input = << >>
    /\ result = "Skipped"
    /\ pc = "idle"
    /\ mret = None
    /\ runs = 0
    /\ NoCall
    /\ NoRest
    /\ bytes_self \in ByteVecs
    /\ bytes_other \in ByteVecs
    /\ max_size \in 0..MaxMaxSize
    /\ bytes_result = None
    /\ bytes_last = None

BytesNext ==
    \/ Splice
    \/ CrossoverInsert
    \/ CrossoverReplace

BytesSpec == BytesInit /\ [][BytesNext]_vars

\* The packet-level operation that ran and returned Mutated.
BytesMutated(operation) ==
    /\ bytes_last # None
    /\ bytes_last[1].operation = operation
    /\ bytes_result = Some("Mutated")

\* C19: after a mutate_splice that returned Mutated with the draws to and
\* from, self is the old self[0..to] followed by other[from..]; with one byte
\* in self and one in other, self equals other.
C19_SpliceReplacesSuffix ==
    BytesMutated("mutate_splice") =>
        LET old == bytes_last[1].before
            to == bytes_last[1].draws[1]
            from == bytes_last[1].draws[2]
        IN /\ bytes_self = Slice(old, 0, to) \o Slice(bytes_other, from, Len(bytes_other))
           /\ (Len(old) = 1 /\ Len(bytes_other) = 1) => bytes_self = bytes_other

\* C20: mutate_splice and mutate_crossover_insert do not grow self beyond
\* max_size: a self of at most max_size bytes has at most max_size bytes
\* after the call.
C20_WithinMaxSize ==
    (/\ bytes_last # None
     /\ bytes_last[1].operation \in {"mutate_splice", "mutate_crossover_insert"}
     /\ Len(bytes_last[1].before) <= max_size)
        => Len(bytes_self) <= max_size

\* The packet-level operation that ran last.
BytesRan(operation) == bytes_last # None /\ bytes_last[1].operation = operation
bytes_before == bytes_last[1].before
bytes_draws == bytes_last[1].draws

\* C21: mutate_crossover_insert on N > 0 bytes of self and M > 0 bytes of
\* other returns Mutated; its draws are from below M, to below N and len from
\* 1 to M - from, and self becomes the old self[0..to], then
\* other[from..from + len], then the old self[to..N], N + len bytes; other is
\* never changed.  With one byte in each, self becomes the two bytes in one
\* order or the other.
C21_CrossoverInsertInserts ==
    /\ [](BytesRan("mutate_crossover_insert")
             /\ Len(bytes_before) > 0 /\ Len(bytes_other) > 0 =>
          LET N == Len(bytes_before)
              M == Len(bytes_other)
              from == bytes_draws[1]
              to == bytes_draws[2]
              len == bytes_draws[3] + 1
          IN /\ bytes_result = Some("Mutated")
             /\ Len(bytes_draws) = 3
             /\ 0 <= from /\ from < M
             /\ 0 <= to /\ to < N
             /\ 1 <= len /\ len <= M - from
             /\ Len(bytes_self) = N + len
             /\ bytes_self = Slice(bytes_before, 0, to)
                                \o Slice(bytes_other, from, from + len)
                                \o Slice(bytes_before, to, N)
             /\ (N = 1 /\ M = 1) =>
                   bytes_self \in {bytes_before \o bytes_other, bytes_other \o bytes_before})
    /\ [][bytes_other' = bytes_other]_vars

\* The second byte of other has been inserted between the two bytes of
\* self, which differ.
C21_Witness ==
    /\ BytesRan("mutate_crossover_insert")
    /\ bytes_result = Some("Mutated")
    /\ bytes_before = <<1, 0>>
    /\ bytes_other = <<0, 1>>
    /\ bytes_draws = <<1, 1, 0>>
    /\ bytes_self = <<1, 1, 0>>

\* C22: mutate_crossover_replace on non-empty self and other returns
\* Mutated and never changes the length of self; its draws are from below M,
\* to below N and len from 1 to min(M - from, N - to); self[to..to + len]
\* becomes other[from..from + len] and no other byte of self changes.  With
\* one byte in each, self becomes other.
C22_CrossoverReplaceReplaces ==
    (BytesRan("mutate_crossover_replace")
       /\ Len(bytes_before) > 0 /\ Len(bytes_other) > 0) =>
        LET N == Len(bytes_before)
            M == Len(bytes_other)
            from == bytes_draws[1]
            to == bytes_draws[2]
            len == bytes_draws[3] + 1
        IN /\ bytes_result = Some("Mutated")
           /\ Len(bytes_draws) = 3
           /\ 0 <= from /\ from < M
           /\ 0 <= to /\ to < N
           /\ 1 <= len /\ len <= Min(M - from, N - to)
           /\ Len(bytes_self) = N
           /\ \A k \in 1..N :
                 bytes_self[k] = IF to < k /\ k <= to + len
                                 THEN bytes_other[from + (k - to)]
                                 ELSE bytes_before[k]
           /\ (N = 1 /\ M = 1) => bytes_self = bytes_other

\* The last byte of other has replaced the middle byte of self.
C22_Witness ==
    /\ BytesRan("mutate_crossover_replace")
    /\ bytes_result = Some("Mutated")
    /\ bytes_before = <<0, 0, 0>>
    /\ bytes_other = <<0, 1>>
    /\ bytes_draws = <<1, 1, 0>>
    /\ bytes_self = <<0, 1, 0>>

\* C23: mutate_crossover_insert, mutate_crossover_replace and mutate_splice
\* return Skipped and leave self unchanged whenever self or other is empty,
\* and so does every call that comes after.
C23_EmptySkips ==
    /\ []((bytes_last # None /\ (bytes_before = << >> \/ bytes_other = << >>)) =>
            (bytes_result = Some("Skipped") /\ bytes_self = bytes_before))
    /\ [][(bytes_last # None /\ (bytes_self = << >> \/ bytes_other = << >>)) =>
            (bytes_result' = Some("Skipped") /\ bytes_self' = bytes_self)]_vars

\* mutate_splice has been called again on bytes of self with an empty other
\* and has skipped again.
C23_Witness ==
    /\ BytesRan("mutate_splice")
    /\ bytes_last[1].again
    /\ bytes_before = <<1>>
    /\ bytes_other = << >>
    /\ bytes_result = Some("Skipped")
    /\ bytes_self = <<1>>

\* The packet-level operation of a crossover mutator.
crossover_operation(mutator, self, other) ==
    IF mutator = "CrossoverInsert"
    THEN mutate_crossover_insert(self, other)
    ELSE mutate_crossover_replace(self, other)

\* C24: the CrossoverInsert and CrossoverReplace mutators on two or more
\* packets I draw p and q below |I|.  If p = q they return Skipped and leave
\* I; otherwise what they return and leave at p is what the packet-level
\* operation makes of I[p] with I[q]: the packet at q and every other packet
\* are unchanged, and so is the number of packets.
C24_CrossoverTouchesOnePacket ==
    ((Ran("CrossoverInsert") \/ Ran("CrossoverReplace")) /\ Len(before) >= 2) =>
        LET p == draws[1]
            q == draws[2]
        IN /\ Len(draws) >= 2
           /\ 0 <= p /\ p < Len(before)
           /\ 0 <= q /\ q < Len(before)
           /\ p = q => (result = "Skipped" /\ input = before /\ Len(draws) = 2)
           /\ p # q =>
                 /\ Out(result, input[p + 1], SubSeq(draws, 3, Len(draws)))
                       \in crossover_operation(last[1].mutator, before[p + 1], before[q + 1])
                 /\ Len(input) = Len(before)
                 /\ \A k \in 1..Len(before) : k # p + 1 => input[k] = before[k]

\* CrossoverInsert has put the byte of the last of three packets into the
\* first, whose byte is another one; the last two packets are as they were.
C24_Witness ==
    /\ Ran("CrossoverInsert")
    /\ result = "Mutated"
    /\ before = << <<0>>, << >>, <<1>> >>
    /\ draws = <<0, 2, 0, 0, 0>>
    /\ input = << <<1, 0>>, << >>, <<1>> >>

(***************************************************************************)
(* PacketHavocMutator::mutate step by step: the draws, each iteration of   *)
(* its loop, and its return.                                               *)
(***************************************************************************)
HavocMaxPackets == 2

HavocInputs == SeqsUpTo(Packets, HavocMaxPackets)

\* The loop body's update of result, with the outcome of the last inner call
\* taken for the result.
havoc_result_last(r, outcome) == outcome

\* The loop body's update of result after an inner call returned outcome.
havoc_result(r, outcome) == IF outcome = "Mutated" THEN "Mutated" ELSE r

\* mutate up to its loop: the test for no packets, and the draws of
\* iterations() and of the packet.
PacketHavocMutator_mutate_begin ==
    /\ havoc.pc = "idle"
    /\ IF Len(input) = 0
       THEN /\ result' = "Skipped"
            /\ havoc' = [havoc EXCEPT !.pc = "returned"]
       ELSE \E iters \in Below(HavocMaxIters), packet \in Below(Len(input)) :
               /\ result' = "Skipped"
               /\ havoc' = [pc |-> "loop", iters |-> iters, packet |-> packet,
                            i |-> 0, calls |-> 0, mutated |-> FALSE]
    /\ UNCHANGED <<input, pc, mret, runs, callVars, byteVars, typedVars, monVars, fileVars,
                   printVars, laterVars, obsVars, histVars>>

\* One iteration of the loop: mutate_packet on the packet drawn.
PacketHavocMutator_mutate_iteration ==
    /\ havoc.pc = "loop"
    /\ havoc.i < havoc.iters
    /\ \E o \in mutate_packet(input[havoc.packet + 1]) :
          /\ input' = VecSet(input, havoc.packet, o.value)
          /\ result' = havoc_result(result, o.result)
          /\ havoc' = [havoc EXCEPT !.i = @ + 1,
                                    !.calls = @ + 1,
                                    !.mutated = @ \/ o.result = "Mutated"]
    /\ UNCHANGED <<pc, mret, runs, callVars, byteVars, typedVars, monVars, fileVars,
                   printVars, laterVars, obsVars, histVars>>

\* The end of the loop: mutate returns result.
PacketHavocMutator_mutate_return ==
    /\ havoc.pc = "loop"
    /\ havoc.i = havoc.iters
    /\ havoc' = [havoc EXCEPT !.pc = "returned"]
    /\ UNCHANGED <<schedVars, callVars, byteVars, typedVars, monVars, fileVars,
                   printVars, laterVars, obsVars, histVars>>

HavocInit ==
    /\ ObserverInit
    /\ input \in HavocInputs
    /\ result = "Skipped"
    /\ pc = "idle"
    /\ mret = None
    /\ runs = 0
    /\ NoCall
    /\ NoBytes
    /\ NoRest

HavocNext ==
    \/ PacketHavocMutator_mutate_begin
    \/ PacketHavocMutator_mutate_iteration
    \/ PacketHavocMutator_mutate_return

HavocSpec == HavocInit /\ [][HavocNext]_vars

\* C25: an invocation of the Havoc mutator on one or more packets draws one
\* packet index and a number of iterations below 16 and keeps both; every
\* step of it leaves the number of packets and every packet but the one drawn
\* as they are; when it returns it has made as many inner calls as it drew
\* iterations, and it returns Mutated exactly if one of them returned Mutated.
C25_HavocMutatesOnePacket ==
    /\ []((havoc.pc # "idle" /\ Len(input) > 0) =>
            /\ havoc.iters \in 0..(HavocMaxIters - 1)
            /\ havoc.packet \in 0..(Len(input) - 1)
            /\ havoc.pc = "returned" =>
                  /\ havoc.calls = havoc.iters
                  /\ result = "Mutated" <=> havoc.mutated)
    /\ [][/\ Len(input') = Len(input)
          /\ \A k \in 1..Len(input) : k # havoc'.packet + 1 => input'[k] = input[k]
          /\ havoc.pc = "loop" => (havoc'.packet = havoc.packet /\ havoc'.iters = havoc.iters)]_vars

\* An invocation on two packets has returned Mutated after three inner calls,
\* the last of which returned Skipped: the result of an earlier one is kept.
C25_Witness ==
    /\ havoc.pc = "returned"
    /\ havoc.iters = 3
    /\ havoc.packet = 1
    /\ input = << << >>, <<1>> >>
    /\ result = "Mutated"

(***************************************************************************)
(* Composite packet types: tests::PacketType of src/lib.rs and FTPCommand  *)
(* of the example minimal_ftp_fuzzer.  A packet is its type, its variant   *)
(* and the Option of the bytes it carries (the two u8 of TYPE are left     *)
(* out: no capability reads or writes them).                               *)
(***************************************************************************)
TypedMaxLen == 1

TypedBytes == SeqsUpTo(Byte, TypedMaxLen)

Packet(type, variant, data) == [type |-> type, variant |-> variant, data |-> data]

TypedPackets ==
    {Packet("PacketType", v, Some(b)) : v \in {"A", "B"}, b \in TypedBytes}
    \cup {Packet("FTPCommand", v, Some(b)) : v \in {"USER", "PASS", "CWD", "LIST"}, b \in TypedBytes}
    \cup {Packet("FTPCommand", v, None) : v \in {"PASV", "TYPE", "LIST", "QUIT"}}

\* inner_data that lends empty bytes for a command that carries none.
inner_data_lent(p) ==
    IF p.data = None THEN Some(<< >>) ELSE p.data

\* FTPCommand::inner_data and inner_data_mut
inner_data(p) ==
    IF p.variant \in {"USER", "PASS", "CWD", "LIST"} THEN p.data ELSE None

\* The implementation for BytesInput of a capability that takes another packet.
BytesInput_mutate(operation, self, other) ==
    CASE operation = "mutate_crossover_insert" -> mutate_crossover_insert(self, other)
      [] operation = "mutate_crossover_replace" -> mutate_crossover_replace(self, other)
      [] operation = "mutate_splice" -> mutate_splice(self, other)

\* The outcomes os of a call on the bytes of the packet self, as outcomes of
\* the call on self: data is a reference into self.
OnData(self, os) ==
    {Out(o.result, [self EXCEPT !.data = Some(o.value)], o.draws) : o \in os}

\* mutate_crossover_insert, mutate_crossover_replace and mutate_splice of
\* tests::PacketType
PacketType_mutate(operation, self, other) ==
    IF self.variant = other.variant
    THEN OnData(self, BytesInput_mutate(operation, self.data[1], other.data[1]))
    ELSE {Out("Skipped", self, << >>)}

\* mutate_havoc of tests::PacketType
PacketType_mutate_havoc(self) == OnData(self, mutate_packet(self.data[1]))

\* mutate_crossover_insert, mutate_crossover_replace and mutate_splice of
\* FTPCommand
FTPCommand_mutate(operation, self, other) ==
    IF inner_data(self) # None /\ inner_data(other) # None
    THEN OnData(self, BytesInput_mutate(operation, inner_data(self)[1], inner_data(other)[1]))
    ELSE {Out("Skipped", self, << >>)}

\* mutate_havoc of FTPCommand
FTPCommand_mutate_havoc(self) ==
    IF inner_data(self) # None
    THEN OnData(self, mutate_packet(inner_data(self)[1]))
    ELSE {Out("Skipped", self, << >>)}

\* The capability operation of the type of self.
Typed_mutate(operation, self, other) ==
    IF operation = "mutate_havoc"
    THEN IF self.type = "PacketType"
         THEN PacketType_mutate_havoc(self)
         ELSE FTPCommand_mutate_havoc(self)
    ELSE IF self.type = "PacketType"
         THEN PacketType_mutate(operation, self, other)
         ELSE FTPCommand_mutate(operation, self, other)

\* A call of a capability on typed_self.  Calls are followed while the bytes
\* of self are no longer than TypedMaxLen.
TypedRun(operation) ==
    /\ typed_self.data # None => Len(typed_self.data[1]) <= TypedMaxLen
    /\ \E o \in Typed_mutate(operation, typed_self, typed_other) :
          /\ typed_self' = o.value
          /\ typed_result' = Some(o.result)
    /\ typed_op' = Some(operation)
    /\ UNCHANGED <<typed_other, typed_variant, obsVars, histVars, schedVars, callVars,
                   byteVars, havocVars, monVars, fileVars, printVars, laterVars>>

TypedCrossoverInsert == TypedRun("mutate_crossover_insert")
TypedCrossoverReplace == TypedRun("mutate_crossover_replace")
TypedSplice == TypedRun("mutate_splice")
TypedHavoc == TypedRun("mutate_havoc")

TypedInit ==
    /\ ObserverInit
    /\ SchedIdle
    /\ NoCall
    /\ NoBytes
    /\ NoHavoc
    /\ NoMonitor
    /\ NoFile
    /\ NoPrint
    /\ NoLater
    /\ typed_self \in TypedPackets
    /\ typed_other \in {p \in TypedPackets : p.type = typed_self.type}
    /\ typed_result = None
    /\ typed_op = None
    /\ typed_variant = typed_self.variant

TypedNext ==
    \/ TypedCrossoverInsert
    \/ TypedCrossoverReplace
    \/ TypedSplice
    \/ TypedHavoc

TypedSpec == TypedInit /\ [][TypedNext]_vars

\* A step that is a call of CrossoverInsert, CrossoverReplace or Splice.
CrossoverOrSpliceStep ==
    /\ <<typed_self, typed_result, typed_op>>' # <<typed_self, typed_result, typed_op>>
    /\ typed_op' # Some("mutate_havoc")

\* C26: CrossoverInsert, CrossoverReplace and Splice of a composite packet
\* type return Skipped and leave self unchanged when self and other are
\* different variants.
C26_DifferentVariantsSkip ==
    [][(CrossoverOrSpliceStep /\ typed_self.variant # typed_other.variant) =>
          (typed_result' = Some("Skipped") /\ typed_self' = typed_self)]_vars

\* C27: no capability changes the variant of the packet it mutates, so after
\* any number of calls the packet is of the variant it started as; a call on
\* a packet without bytes (PASV, QUIT, TYPE, LIST(None)) returns Skipped and
\* leaves the packet.
C27_VariantKept ==
    /\ [](typed_self.variant = typed_variant)
    /\ []((typed_op # None /\ typed_self.data = None) => typed_result = Some("Skipped"))
    /\ [][typed_self.data = None => typed_self' = typed_self]_vars

\* A USER command whose bytes a call with a PASS command has changed.
C27_Witness ==
    /\ typed_variant = "USER"
    /\ typed_other.variant = "PASS"
    /\ typed_result = Some("Mutated")
    /\ typed_self = Packet("FTPCommand", "USER", Some(<<1, 0>>))

(***************************************************************************)
(* StateObserver::print_statemachine.                                      *)
(***************************************************************************)
\* The order of u64 on packed transitions.
u64_lt(a, b) == a[1] < b[1] \/ (a[1] = b[1] /\ a[2] < b[2])

\* Iteration over a BTreeSet<u64> from its greatest element down.
RECURSIVE BTreeSet_iter_rev(_)
BTreeSet_iter_rev(S) ==
    IF S = {} THEN << >>
    ELSE LET m == CHOOSE x \in S : \A y \in S : y = x \/ u64_lt(y, x)
         IN <<m>> \o BTreeSet_iter_rev(S \ {m})

\* Iteration over a BTreeSet<u64>: its elements in ascending order.
RECURSIVE BTreeSet_iter(_)
BTreeSet_iter(S) ==
    IF S = {} THEN << >>
    ELSE LET m == CHOOSE x \in S : \A y \in S : y = x \/ u64_lt(x, y)
         IN <<m>> \o BTreeSet_iter(S \ {m})

\* println!("  \"{}\" -> \"{}\";", from, to)
EdgeLine(from, to) ==
    "  \"" \o ToString(from) \o "\" -> \"" \o ToString(to) \o "\";"

\* StateGraph::print_dot: the lines printed.
print_dot(g) ==
    LET values == BTreeSet_iter(g.edges)
    IN <<"digraph IMPLEMENTED_STATE_MACHINE {">>
       \o [k \in 1..Len(values) |->
             LET t == unpack_transition(values[k]) IN EdgeLine(t[1], t[2])]
       \o <<"}">>

\* StateObserver::print_statemachine
print_statemachine ==
    /\ ~panicked
    /\ stdout' = Some(print_dot(graph))
    /\ op' = "print_statemachine"
    /\ UNCHANGED <<graph, panicked, ret, fired, histVars, schedVars, callVars, byteVars,
                   havocVars, typedVars, monVars, fileVars, laterVars>>

\* record and pre_exec, followed until the state machine is printed.
DotRecord == stdout = None /\ Record
DotPreExec == stdout = None /\ PreExec

DotNext ==
    \/ DotRecord
    \/ DotPreExec
    \/ print_statemachine

DotSpec == Init /\ [][DotNext]_vars

\* The ids of the nodes of the graph.
Ids == {graph.nodes[s] : s \in DOMAIN graph.nodes}

MaxClients == 2
MaxStat == 2

StatKeys == {USER_STAT_NODES, USER_STAT_EDGES}

\* UserStats::Number(value), and a UserStats of another kind.
Number(value) == [kind |-> "Number", value |-> value]
String == [kind |-> "String", value |-> 0]

UserStatsValues == {Number(n) : n \in 0..MaxStat} \cup {String}

\* A ClientStats a client has reported no user stats to.
ClientStats_new == [key \in StatKeys |-> None]

\* client_stat.get_user_stats(stat)
get_user_stats(client_stat, stat) == client_stat[stat]

\* The variable sum of calculate_average after the first k clients.
RECURSIVE sum_loop(_, _, _)
sum_loop(stats, stat, k) ==
    IF k = 0 THEN 0
    ELSE LET got == get_user_stats(stats[k], stat)
         IN sum_loop(stats, stat, k - 1)
            + (IF got # None /\ got[1].kind = "Number" THEN got[1].value ELSE 0)

\* calculate_average that divides by the number of clients that have reported
\* a Number for stat.
calculate_average_of_reporting(stats, stat) ==
    LET reporting == {k \in 1..Len(stats) :
                        /\ get_user_stats(stats[k], stat) # None
                        /\ get_user_stats(stats[k], stat)[1].kind = "Number"}
    IN IF reporting = {}
       THEN [panicked |-> TRUE, value |-> 0]
       ELSE [panicked |-> FALSE, value |-> sum_loop(stats, stat, Len(stats)) \div Cardinality(reporting)]

\* HasStateStats::calculate_average: the value returned, or the panic of the
\* division by zero.
calculate_average(stats, stat) ==
    IF Len(stats) = 0
    THEN [panicked |-> TRUE, value |-> 0]
    ELSE [panicked |-> FALSE, value |-> sum_loop(stats, stat, Len(stats)) \div Len(stats)]

avg_statemachine_nodes(stats) == calculate_average(stats, USER_STAT_NODES)
avg_statemachine_edges(stats) == calculate_average(stats, USER_STAT_EDGES)

\* Monitor::client_stats_mut_for with the id of a client not seen before.
client_stats_mut_for ==
    /\ Len(client_stats) < MaxClients
    /\ client_stats' = Append(client_stats, ClientStats_new)
    /\ average' = None
    /\ UNCHANGED <<obsVars, histVars, schedVars, callVars, byteVars, havocVars, typedVars,
                   fileVars, printVars, laterVars>>

\* ClientStats::update_user_stats of a client.
update_user_stats ==
    /\ \E k \in 1..Len(client_stats), stat \in StatKeys, value \in UserStatsValues :
          client_stats' = [client_stats EXCEPT ![k][stat] = Some(value)]
    /\ average' = None
    /\ UNCHANGED <<obsVars, histVars, schedVars, callVars, byteVars, havocVars, typedVars,
                   fileVars, printVars, laterVars>>

\* StateMonitor::display: num_nodes and num_edges.
StateMonitor_display ==
    /\ LET num_nodes == avg_statemachine_nodes(client_stats)
           num_edges == avg_statemachine_edges(client_stats)
       IN average' = Some([panicked |-> num_nodes.panicked \/ num_edges.panicked,
                           num_nodes |-> num_nodes.value,
                           num_edges |-> num_edges.value])
    /\ UNCHANGED <<client_stats, obsVars, histVars, schedVars, callVars, byteVars, havocVars,
                   typedVars, fileVars, printVars, laterVars>>

MonitorInit ==
    /\ ObserverInit
    /\ SchedIdle
    /\ NoCall
    /\ NoBytes
    /\ NoHavoc
    /\ NoTyped
    /\ NoMonitor
    /\ NoFile
    /\ NoPrint
    /\ NoLater

MonitorNext ==
    \/ client_stats_mut_for
    \/ update_user_stats
    \/ StateMonitor_display

MonitorSpec == MonitorInit /\ [][MonitorNext]_vars

\* The clients that have reported Number(n) under the key stat.
Reported(stat, n) ==
    {k \in 1..Len(client_stats) : client_stats[k][stat] = Some(Number(n))}

\* The sum of the Number values the clients have reported under the key stat.
RECURSIVE ReportedSum(_, _)
ReportedSum(stat, n) ==
    IF n = 0 THEN 0 ELSE n * Cardinality(Reported(stat, n)) + ReportedSum(stat, n - 1)

\* avg is total divided by count, rounded down.
IsQuotient(avg, total, count) == avg * count <= total /\ total < (avg + 1) * count

\* C29: with one or more clients, the averages display computes for the keys
\* statemachine_nodes and statemachine_edges are the sums of the Number values
\* the clients reported under the key, divided (rounding down) by the number
\* of all clients, those that reported nothing under the key included.
C29_AverageOverAllClients ==
    (average # None /\ Len(client_stats) > 0) =>
        /\ ~average[1].panicked
        /\ IsQuotient(average[1].num_nodes, ReportedSum(USER_STAT_NODES, MaxStat), Len(client_stats))
        /\ IsQuotient(average[1].num_edges, ReportedSum(USER_STAT_EDGES, MaxStat), Len(client_stats))

\* Of two clients one has reported 2 nodes and the other nothing: the average
\* is 1.
C29_Witness ==
    /\ average # None
    /\ Len(client_stats) = 2
    /\ client_stats[1][USER_STAT_NODES] = Some(Number(2))
    /\ client_stats[2][USER_STAT_NODES] = None
    /\ average[1].num_nodes = 1

(***************************************************************************)
(* src/monitor.rs: FuzzerStatsWrapper and the file it writes.  The clock   *)
(* is current_time() in whole seconds and does not go back.  Of a data row *)
(* the columns time, nodes and edges are kept; the other columns are       *)
(* counters of libafl.                                                     *)
(***************************************************************************)
MaxTime == 3
MaxInterval == 1
MaxRows == 2

Header1 == "### butterfly::FuzzerStatsWrapper output ###"
Header2 == "# time, cores, corpus count, crashes, total execs, exec/s, nodes, edges"

\* The data row written at the time secs.
DataRow(secs, nodes, edges) ==
    ToString(secs) \o ", " \o ToString(nodes) \o ", " \o ToString(edges)

\* The writeln! calls of display that write the header whether or not the
\* file existed.
write_lines_with_header(already_exists, secs, nodes, edges) ==
    <<Header1, Header2, DataRow(secs, nodes, edges)>>

\* The writeln! calls of display: the lines appended to the file opened.
write_lines(already_exists, secs, nodes, edges) ==
    (IF ~already_exists THEN <<Header1, Header2>> ELSE << >>)
    \o <<DataRow(secs, nodes, edges)>>

\* self.filename.exists()
exists(file) == file # None

\* The lines of the file as OpenOptions::new().append(true).create(true)
\* opens it: those it has, none if it is created.
opened(file) == IF exists(file) THEN file[1] ELSE << >>

\* The number of data rows of a file.
Rows(file) == Cardinality({k \in 1..Len(opened(file)) : opened(file)[k] \notin {Header1, Header2}})

\* FuzzerStatsWrapper::new with the filename of the file followed.
FuzzerStatsWrapper_new ==
    /\ last_update' = now
    /\ \E i \in 0..MaxInterval : interval' = i
    /\ <<last_update, interval>>' # <<last_update, interval>>
    /\ UNCHANGED <<stats_file, now, file_removed, monVars, obsVars, histVars, schedVars,
                   callVars, byteVars, havocVars, typedVars, printVars, laterVars>>

\* FuzzerStatsWrapper::display.  Calls are followed while the file has fewer
\* than MaxRows data rows.
FuzzerStatsWrapper_display ==
    /\ Rows(stats_file) < MaxRows
    /\ IF now - last_update >= interval
       THEN /\ last_update' = now
            /\ LET already_exists == exists(stats_file)
                   nodes == avg_statemachine_nodes(client_stats)
                   edges == avg_statemachine_edges(client_stats)
               IN \/ stats_file' =
                        IF nodes.panicked \/ edges.panicked
                        THEN Some(opened(stats_file))
                        ELSE Some(opened(stats_file)
                                  \o write_lines(already_exists, now, nodes.value, edges.value))
                  \/ stats_file' = stats_file
       ELSE UNCHANGED <<last_update, stats_file>>
    /\ LET num_nodes == avg_statemachine_nodes(client_stats)
           num_edges == avg_statemachine_edges(client_stats)
       IN average' = Some([panicked |-> num_nodes.panicked \/ num_edges.panicked,
                           num_nodes |-> num_nodes.value,
                           num_edges |-> num_edges.value])
    /\ UNCHANGED <<now, interval, file_removed, client_stats, obsVars, histVars, schedVars,
                   callVars, byteVars, havocVars, typedVars, printVars, laterVars>>

\* The clock moves on by a second.
current_time ==
    /\ now < MaxTime
    /\ now' = now + 1
    /\ UNCHANGED <<stats_file, last_update, interval, file_removed, monVars, obsVars, histVars,
                   schedVars, callVars, byteVars, havocVars, typedVars, printVars, laterVars>>

\* Someone removes the file.
remove_file ==
    /\ exists(stats_file)
    /\ stats_file' = None
    /\ file_removed' = TRUE
    /\ UNCHANGED <<now, last_update, interval, monVars, obsVars, histVars, schedVars,
                   callVars, byteVars, havocVars, typedVars, printVars, laterVars>>

\* A wrapper just built around a monitor with one client, the file not there.
StatsFileInit ==
    /\ ObserverInit
    /\ SchedIdle
    /\ NoCall
    /\ NoBytes
    /\ NoHavoc
    /\ NoTyped
    /\ NoPrint
    /\ NoLater
    /\ client_stats = <<ClientStats_new>>
    /\ average = None
    /\ stats_file = None
    /\ now = 0
    /\ last_update = 0
    /\ interval \in 0..MaxInterval
    /\ file_removed = FALSE

StatsFileNext ==
    \/ FuzzerStatsWrapper_new
    \/ FuzzerStatsWrapper_display
    \/ current_time
    \/ remove_file

StatsFileSpec == StatsFileInit /\ [][StatsFileNext]_vars

\* The lines of file from the one after the first n on.
LinesAfter(file, n) == SubSeq(opened(file), n + 1, Len(opened(file)))

\* C30: a step that leaves the stats file in place only appends lines to it;
\* header lines are appended only by a step that found no file; and a file
\* that has never been removed begins with the two header lines and has only
\* data rows after them.
C30_HeaderOnce ==
    /\ [][(exists(stats_file) /\ exists(stats_file')) =>
            /\ Len(stats_file'[1]) >= Len(stats_file[1])
            /\ SubSeq(stats_file'[1], 1, Len(stats_file[1])) = stats_file[1]
            /\ \A k \in (Len(stats_file[1]) + 1)..Len(stats_file'[1]) :
                  stats_file'[1][k] \notin {Header1, Header2}]_vars
    /\ []((exists(stats_file) /\ ~file_removed) =>
            /\ Len(stats_file[1]) >= 3
            /\ stats_file[1][1] = Header1
            /\ stats_file[1][2] = Header2
            /\ \A k \in 3..Len(stats_file[1]) : stats_file[1][k] \notin {Header1, Header2})

\* A file never removed that two display calls have written to, the second a
\* second after the first.
C30_Witness ==
    /\ ~file_removed
    /\ stats_file = Some(<<Header1, Header2, DataRow(1, 0, 0), DataRow(2, 0, 0)>>)

(***************************************************************************)
(* src/input.rs: load_pcaps.  A directory is the sequence of its entries   *)
(* in the order read_dir yields them; a path is the sequence of the        *)
(* positions that lead to an entry.  read_dir and evaluate_input are taken *)
(* to succeed.                                                             *)
(***************************************************************************)
MaxDirEntries == 2
MaxSubEntries == 1

Entry(kind, ext, len, content, entries) ==
    [kind |-> kind, ext |-> ext, len |-> len, content |-> content, entries |-> entries]

\* A regular file: its extension, its length, and whether its content is a
\* capture from_pcap accepts ("valid"), a capture it returns an error for
\* ("rejected"), or no capture at all ("malformed").
RegularFile(ext, len, content) == Entry("file", ext, len, content, << >>)

\* An entry std::fs::metadata fails for.
Unreadable == Entry("unreadable", "", 0, "", << >>)

Directory(entries) == Entry("dir", "", 0, "", entries)

LeafEntries ==
    {RegularFile("pcap", 1, "valid"), RegularFile("pcapng", 1, "valid"),
     RegularFile("txt", 1, "valid"), RegularFile("pcap", 0, "valid"),
     RegularFile("pcap", 1, "malformed"), RegularFile("pcap", 1, "rejected"),
     Unreadable}

DirEntries ==
    LeafEntries \cup {Directory(es) : es \in SeqsUpTo(LeafEntries, MaxSubEntries)}

\* The test of the extension that knows pcap only.
is_pcap_only(ext) == ext = "pcap"

\* path.extension() == Some("pcapng") || path.extension() == Some("pcap")
is_pcap(ext) == ext = "pcapng" \/ ext = "pcap"

\* What a call or a part of it did: the paths from_pcap was called for, the
\* paths of the inputs evaluated, and how it ended.
Loaded(calls, evaluated, end) == [calls |-> calls, evaluated |-> evaluated, end |-> end]

\* load_pcaps on the entries from the k-th on of the directory at path.
RECURSIVE load_pcaps_from(_, _, _)
load_pcaps_from(entries, path, k) ==
    IF k > Len(entries) THEN Loaded(<< >>, << >>, "Ok")
    ELSE LET entry == entries[k]
             p == Append(path, k)
             here ==
                 IF entry.kind = "unreadable" THEN Loaded(<< >>, << >>, "Ok")
                 ELSE IF entry.kind = "file" /\ entry.len > 0
                 THEN IF is_pcap(entry.ext)
                      THEN IF entry.content = "malformed" THEN Loaded(<< >>, << >>, "panic")
                           ELSE IF entry.content = "rejected" THEN Loaded(<<p>>, << >>, "Err")
                           ELSE Loaded(<<p>>, <<p>>, "Ok")
                      ELSE Loaded(<< >>, << >>, "Ok")
                 ELSE IF entry.kind = "dir" THEN load_pcaps_from(entry.entries, p, 1)
                 ELSE Loaded(<< >>, << >>, "Ok")
         IN IF here.end # "Ok" THEN here
            ELSE LET rest == load_pcaps_from(entries, path, k + 1)
                 IN Loaded(here.calls \o rest.calls, here.evaluated \o rest.evaluated, rest.end)

\* load_pcaps(state, fuzzer, executor, mgr, in_dir)
load_pcaps ==
    /\ loaded = None
    /\ loaded' = Some(load_pcaps_from(in_dir, << >>, 1))
    /\ UNCHANGED <<in_dir, obsVars, histVars, schedVars, callVars, byteVars, havocVars,
                   typedVars, monVars, fileVars, printVars, seedVars, packVars, lengthVars,
                   accessVars, noveltyVars>>

LoadInit ==
    /\ ObserverInit
    /\ SchedIdle
    /\ NoCall
    /\ NoBytes
    /\ NoHavoc /\ NoTyped /\ NoMonitor /\ NoFile /\ NoPrint
    /\ NoTwin /\ NoPacked /\ NoKnobs /\ NoAccess /\ NoNovelty
    /\ in_dir \in SeqsUpTo(DirEntries, MaxDirEntries)
    /\ loaded = None

LoadNext == load_pcaps

LoadSpec == LoadInit /\ [][LoadNext]_vars

\* The paths of the non-empty regular files with the extension pcap or pcapng
\* in the tree of the directory at path.
RECURSIVE PcapFiles(_, _)
PcapFiles(entries, path) ==
    UNION {LET e == entries[k]
               p == Append(path, k)
           IN IF e.kind = "file" /\ e.len > 0 /\ e.ext \in {"pcap", "pcapng"} THEN {p}
              ELSE IF e.kind = "dir" THEN PcapFiles(e.entries, p)
              ELSE {}
           : k \in 1..Len(entries)}

\* The elements of a sequence.
Range(seq) == {seq[k] : k \in 1..Len(seq)}

\* No element is twice in the sequence.
NoRepeat(seq) == \A j, k \in 1..Len(seq) : seq[j] = seq[k] => j = k

C32_MalformedIsError ==
    loaded # None => loaded[1].end # "panic"

(***************************************************************************)
(* Two runs from the same PRNG state.  The generator of the state is       *)
(* libafl's; a linear congruential generator on RandBits bits stands for   *)
(* it.  A mutator run takes the outcome whose draws are the ones the       *)
(* generator yields: the i-th draw is the next output modulo the bound of  *)
(* the i-th below call, which is the number of values that draw can take.  *)
(***************************************************************************)
RandBits == 4

RandStates == 0..(2 ^ RandBits - 1)

\* Rand::next: the output and the state after it.
rand_output(s) == s
rand_next(s) == (5 * s + 3) % (2 ^ RandBits)

\* An outcome and the PRNG state it leaves.
Seeded(o, s) == [outcome |-> o, rand |-> s]

\* The outcomes among O that the generator in state s selects from the i-th
\* draw on, each with the state the generator is left in.
RECURSIVE seeded(_, _, _)
seeded(O, s, i) ==
    LET Done == {o \in O : Len(o.draws) < i}
        More == O \ Done
    IN {Seeded(o, s) : o \in Done}
       \cup (IF More = {} THEN {}
             ELSE LET D == {o.draws[i] : o \in More}
                      d == rand_output(s) % Cardinality(D)
                  IN seeded({o \in More : o.draws[i] = d}, rand_next(s), i + 1))

\* The place of a packet among the packets: shorter ones first, then by the
\* bytes read as a binary number.
RECURSIVE BinaryValue(_)
BinaryValue(q) ==
    IF Len(q) = 0 THEN 0 ELSE 2 * BinaryValue(SubSeq(q, 1, Len(q) - 1)) + q[Len(q)]

PacketCode(q) == (2 ^ Len(q) - 1) + BinaryValue(q)

\* HasHavocMutations::mutate_packet with a byte mutator of libafl, which is
\* taken to be a function of the bytes and of the PRNG state: it makes one
\* draw over its outcomes.
mutate_packet_seeded(p, s) ==
    seeded({Out("Skipped", p, <<0>>)}
           \cup {Out("Mutated", q, <<1 + PacketCode(q)>>) : q \in Packets}, s, 1)

\* The loop of PacketHavocMutator::mutate with n iterations to go, on the
\* bytes of the packet drawn.
RECURSIVE havoc_loop_seeded(_, _, _, _)
havoc_loop_seeded(n, r, p, s) ==
    IF n = 0 THEN {Seeded(Out(r, p, << >>), s)}
    ELSE UNION {havoc_loop_seeded(n - 1, havoc_result(r, x.outcome.result), x.outcome.value, x.rand)
                : x \in mutate_packet_seeded(p, s)}

\* PacketHavocMutator::mutate with the generator in state s.
PacketHavocMutator_mutate_seeded(inp, s) ==
    IF Len(inp) = 0
    THEN {Seeded(Out("Skipped", inp, << >>), s)}
    ELSE LET iters == rand_output(s) % HavocMaxIters
             s1 == rand_next(s)
             packet == rand_output(s1) % Len(inp)
             s2 == rand_next(s1)
         IN {Seeded(Out(x.outcome.result, VecSet(inp, packet, x.outcome.value), << >>), x.rand)
             : x \in havoc_loop_seeded(iters, "Skipped", inp[packet + 1], s2)}

\* Mutator::mutate of a mutator with the generator in state s.
Mutator_mutate_seeded(mutator, arg, inp, s) ==
    IF mutator = "Havoc"
    THEN PacketHavocMutator_mutate_seeded(inp, s)
    ELSE seeded(Mutator_mutate(mutator, arg, inp), s, 1)

\* One iteration of the loop of scheduled_mutate with the generator in state
\* s: schedule(), then get_and_mutate.
scheduled_mutate_iteration_seeded(inp, s) ==
    LET mutation == rand_output(s) % NumMutations
    IN Mutator_mutate_seeded(mutations[mutation + 1].mutator, mutations[mutation + 1].arg,
                             inp, rand_next(s))

\* A run after the outcome x.
RunAfter(x) == [rand |-> x.rand, input |-> x.outcome.value, result |-> Some(x.outcome.result)]

\* Both runs call mutate of the same mutator of the tuple.
SeededMutate ==
    /\ twin[1].result = None
    /\ twin[2].result = None
    /\ \E k \in 1..NumMutations :
          \E x \in Mutator_mutate_seeded(mutations[k].mutator, mutations[k].arg,
                                         twin[1].input, twin[1].rand),
             y \in Mutator_mutate_seeded(mutations[k].mutator, mutations[k].arg,
                                         twin[2].input, twin[2].rand) :
             twin' = <<RunAfter(x), RunAfter(y)>>
    /\ UNCHANGED <<obsVars, histVars, schedVars, callVars, byteVars, havocVars, typedVars,
                   monVars, fileVars, printVars, loadVars, packVars, lengthVars, accessVars,
                   noveltyVars>>

\* Both runs are in the loop of scheduled_mutate and make its next iteration.
SeededScheduledMutate ==
    /\ twin[1].result # Some("Mutated")
    /\ twin[2].result # Some("Mutated")
    /\ \E x \in scheduled_mutate_iteration_seeded(twin[1].input, twin[1].rand),
          y \in scheduled_mutate_iteration_seeded(twin[2].input, twin[2].rand) :
          twin' = <<RunAfter(x), RunAfter(y)>>
    /\ UNCHANGED <<obsVars, histVars, schedVars, callVars, byteVars, havocVars, typedVars,
                   monVars, fileVars, printVars, loadVars, packVars, lengthVars, accessVars,
                   noveltyVars>>

SeedInit ==
    /\ ObserverInit
    /\ SchedIdle
    /\ NoCall
    /\ NoBytes
    /\ NoHavoc /\ NoTyped /\ NoMonitor /\ NoFile /\ NoPrint
    /\ NoLoad /\ NoPacked /\ NoKnobs /\ NoAccess /\ NoNovelty
    /\ \E s \in RandStates, inp \in SchedInputs :
          twin = <<[rand |-> s, input |-> inp, result |-> None],
                   [rand |-> s, input |-> inp, result |-> None]>>

SeedNext ==
    \/ SeededMutate
    \/ SeededScheduledMutate

SeedSpec == SeedInit /\ [][SeedNext]_vars

IdBits == 2

IdValues == 0..(2 ^ IdBits - 1)

\* x as u32
as_u32(x) == x % (2 ^ IdBits)

\* x << n and x >> n on u64
shl(x, n) == (x * 2 ^ n) % (2 ^ (2 * IdBits))
shr(x, n) == x \div (2 ^ n)

\* pack_transition that shifts from by one bit less.
pack_transition_u64_short(from, to) == BitOr(shl(from, IdBits - 1), to)

\* (from as u64) << 32 | (to as u64)
pack_transition_u64(from, to) == BitOr(shl(from, IdBits), to)

\* ((transition >> 32) as u32, transition as u32)
unpack_transition_u64(transition) == <<as_u32(shr(transition, IdBits)), as_u32(transition)>>

\* Two transitions are packed and unpacked again.
pack_unpack ==
    /\ packed # None
    /\ packed[1].values = None
    /\ LET t1 == pack_transition_u64(packed[1].first[1], packed[1].first[2])
           t2 == pack_transition_u64(packed[1].second[1], packed[1].second[2])
       IN packed' = Some([packed[1] EXCEPT
                             !.values = Some(<<t1, t2>>),
                             !.back = Some(<<unpack_transition_u64(t1), unpack_transition_u64(t2)>>)])
    /\ UNCHANGED <<obsVars, histVars, schedVars, callVars, byteVars, havocVars, typedVars,
                   monVars, fileVars, printVars, loadVars, seedVars, lengthVars, accessVars,
                   noveltyVars>>

PackInit ==
    /\ ObserverInit
    /\ SchedIdle
    /\ NoCall
    /\ NoBytes
    /\ NoHavoc /\ NoTyped /\ NoMonitor /\ NoFile /\ NoPrint
    /\ NoLoad /\ NoTwin /\ NoKnobs /\ NoAccess /\ NoNovelty
    /\ \E a, b, c, d \in IdValues :
          packed = Some([first |-> <<a, b>>, second |-> <<c, d>>, values |-> None, back |-> None])

PackNext == pack_unpack

PackSpec == PackInit /\ [][PackNext]_vars

\* The pair <<from, to>> the graph keeps for an edge is the upper and the
\* lower half of the packed integer, and u64_lt is the order of the integers.
PairIsPacked ==
    (packed # None /\ packed[1].values # None) =>
        LET t1 == packed[1].values[1][1]
            t2 == packed[1].values[1][2]
        IN /\ pack_transition(packed[1].first[1], packed[1].first[2])
                 = <<shr(t1, IdBits), as_u32(t1)>>
           /\ u64_lt(pack_transition(packed[1].first[1], packed[1].first[2]),
                     pack_transition(packed[1].second[1], packed[1].second[2])) <=> t1 < t2

\* C34: for all ids a, b, c, d: the packed value of (a, b) has a in its upper
\* half and b in its lower half and unpacks to (a, b); (a, b) and (c, d) have
\* the same packed value only if they are the same pair; and the packed value
\* of (a, b) is less than that of (c, d) exactly if a < c, or a = c and b < d.
C34_PackIsOrderedAndInjective ==
    (packed # None /\ packed[1].values # None) =>
        LET a == packed[1].first[1]
            b == packed[1].first[2]
            c == packed[1].second[1]
            d == packed[1].second[2]
            t1 == packed[1].values[1][1]
            t2 == packed[1].values[1][2]
        IN /\ t1 = a * 2 ^ IdBits + b
           /\ packed[1].back[1][1] = <<a, b>>
           /\ packed[1].back[1][2] = <<c, d>>
           /\ t1 = t2 => (a = c /\ b = d)
           /\ t1 < t2 <=> (a < c \/ (a = c /\ b < d))

\* (1, 3) and (2, 0) have been packed: 7 and 8 with ids of two bits.
C34_Witness ==
    /\ packed # None
    /\ packed[1].first = <<1, 3>>
    /\ packed[1].second = <<2, 0>>
    /\ packed[1].values # None
    /\ packed[1].values[1][1] < packed[1].values[1][2]
    /\ packed[1].back = Some(<< <<1, 3>>, <<2, 0>> >>)

(***************************************************************************)
(* Executions are not linked by an edge.                                   *)
(***************************************************************************)
\* C35: the first record call after pre_exec, or on a fresh observer, inserts
\* no edge and leaves new_transitions false, whatever the calls before the
\* pre_exec were and whether or not post_exec was among them.
C35_FirstRecordAddsNoEdge ==
    [][(RecordStep /\ hLen = 0) =>
          /\ graph'.edges = graph.edges
          /\ ~graph'.new_transitions]_vars

\* The first state of an execution has been recorded and differs from the
\* state recorded before the pre_exec; there is no edge between the two.
C35_Witness ==
    /\ op = "record"
    /\ hExecs >= 1
    /\ hLen = 1
    /\ Cardinality(hStates) = 2
    /\ graph.last_node # None
    /\ graph.edges = {}
    /\ ~graph.new_transitions

(***************************************************************************)
(* The scheduler with any arguments of Delete, Splice and Duplicate,       *)
(* invoked again and again on the same input.                              *)
(***************************************************************************)
\* The largest argument of a constructor and the largest number of bytes of
\* the packets an invocation starts from, taken together.
LengthMaxArg == 2
LengthMaxBytes == 2

\* The number of bytes of the packets of inp.
RECURSIVE TotalBytes(_)
TotalBytes(inp) == IF inp = << >> THEN 0 ELSE Len(Head(inp)) + TotalBytes(Tail(inp))

\* The tuple of mutators with Delete built by new(d), Splice by new(s) and
\* Duplicate by new(m).
mutations_with(d, s, m) == <<
    [mutator |-> "Havoc", arg |-> 0],
    [mutator |-> "Reorder", arg |-> 0],
    [mutator |-> "Splice", arg |-> s],
    [mutator |-> "CrossoverInsert", arg |-> 0],
    [mutator |-> "CrossoverReplace", arg |-> 0],
    [mutator |-> "Delete", arg |-> d],
    [mutator |-> "Duplicate", arg |-> m] >>

\* MutatorsTuple::get_and_mutate on the tuple of the arguments k.
get_and_mutate_with(k, mutation, inp) ==
    LET t == mutations_with(k.d, k.s, k.m) IN
    Mutator_mutate(t[mutation + 1].mutator, t[mutation + 1].arg, inp)

\* The least and the greatest length the arguments k leave to a sequence.
LeastLength(k) == Min(Max(1, k.d), Max(1, k.s))
GreatestLength(k) == k.m

\* PacketMutationScheduler::mutate is called on the input the invocation
\* before left behind.
mutate_again ==
    /\ knobs # None
    /\ pc \in {"idle", "returned"}
    /\ TotalBytes(input) <= LengthMaxBytes
    /\ result' = "Skipped"
    /\ pc' = "loop"
    /\ mret' = None
    /\ knobs' = Some([knobs[1] EXCEPT !.invocations = Min(knobs[1].invocations + 1, 2)])
    /\ UNCHANGED <<input, runs, callVars, obsVars, histVars, byteVars, havocVars, typedVars,
                   monVars, fileVars, printVars, loadVars, seedVars, packVars, accessVars,
                   noveltyVars>>

\* One iteration of the loop of scheduled_mutate.
scheduled_mutate_iteration_with ==
    /\ knobs # None
    /\ pc = "loop"
    /\ loop_test(result)
    /\ \E mutation \in schedule :
         \E o \in get_and_mutate_with(knobs[1], mutation, input) :
            /\ input' = o.value
            /\ result' = o.result
    /\ UNCHANGED <<pc, mret, runs, knobs, callVars, obsVars, histVars, byteVars, havocVars,
                   typedVars, monVars, fileVars, printVars, loadVars, seedVars, packVars,
                   accessVars, noveltyVars>>

\* scheduled_mutate leaves the loop and returns Ok(result).
scheduled_mutate_return_with ==
    /\ knobs # None
    /\ pc = "loop"
    /\ ~loop_test(result)
    /\ mret' = Some(result)
    /\ pc' = "returned"
    /\ UNCHANGED <<input, result, runs, knobs, callVars, obsVars, histVars, byteVars,
                   havocVars, typedVars, monVars, fileVars, printVars, loadVars, seedVars,
                   packVars, accessVars, noveltyVars>>

LengthInit ==
    /\ ObserverInit
    /\ NoCall
    /\ NoBytes
    /\ NoHavoc /\ NoTyped /\ NoMonitor /\ NoFile /\ NoPrint
    /\ NoLoad /\ NoTwin /\ NoPacked /\ NoAccess /\ NoNovelty
    /\ result = "Skipped"
    /\ pc = "idle"
    /\ mret = None
    /\ runs = 0
    /\ \E d, s, m \in 0..LengthMaxArg :
          knobs = Some([d |-> d, s |-> s, m |-> m, invocations |-> 0])
    /\ input \in SeqsUpTo(SeqsUpTo(Byte, LengthMaxBytes), LengthMaxArg)
    /\ TotalBytes(input) <= LengthMaxBytes
    /\ LeastLength(knobs[1]) <= Len(input)
    /\ Len(input) <= GreatestLength(knobs[1])

LengthNext ==
    \/ mutate_again
    \/ scheduled_mutate_iteration_with
    \/ scheduled_mutate_return_with

LengthSpec == LengthInit /\ [][LengthNext]_vars

\* C36: with Delete(d), Splice(s) and Duplicate(m) in the tuple of the
\* scheduler, a sequence whose length starts within
\* [min(max(1, d), max(1, s)), m] has a length within these bounds during and
\* after every scheduler invocation; it is never empty.
C36_LengthStaysInBounds ==
    knobs # None =>
        /\ LeastLength(knobs[1]) <= Len(input)
        /\ Len(input) <= GreatestLength(knobs[1])
        /\ Len(input) >= 1

\* With Delete(2), Splice(0) and Duplicate(2) a second invocation has
\* returned and left one packet, the least length.
C36_Witness ==
    /\ knobs # None
    /\ knobs[1].d = 2 /\ knobs[1].s = 0 /\ knobs[1].m = 2
    /\ knobs[1].invocations >= 2
    /\ pc = "returned"
    /\ mret = Some("Mutated")
    /\ Len(input) = 1

(***************************************************************************)
(* The accesses of the mutators to the packet sequence and to the bytes of *)
(* a packet.  A sequence is given by the lengths of its packets; a mutate  *)
(* call leaves the accesses it made behind, in the order made.  An access  *)
(* out of range panics, so it is the last one of its call.                 *)
(***************************************************************************)
AccessMaxPackets == 2
AccessMaxBytes == 2

\* The range lo..hi of a Vec or slice of len elements is touched.
Access(kind, lo, hi, len) == [kind |-> kind, lo |-> lo, hi |-> hi, len |-> len]

\* v[i], v.remove(i), v.insert(i, x), one side of v.swap(i, j), v[lo..hi]
IndexAccess(i, len) == Access("index", i, i + 1, len)
RemoveAccess(i, len) == Access("remove", i, i + 1, len)
InsertAccess(i, len) == Access("insert", i, i, len)
SwapAccess(i, len) == Access("swap", i, i + 1, len)
SliceAccess(lo, hi, len) == Access("slice", lo, hi, len)

\* The access does not panic.
InRange(a) == a.lo <= a.hi /\ a.hi <= a.len

\* The access a and then, unless a panicked, one of the traces of rest.
Then(a, rest) == IF InRange(a) THEN {<<a>> \o t : t \in rest} ELSE {<<a>>}

\* HasSpliceMutation::mutate_splice on self_len and other_len bytes.
mutate_splice_accesses(self_len, other_len) ==
    IF self_len = 0 \/ other_len = 0
    THEN {<< >>}
    ELSE UNION {
           LET len == other_len - from
               resized == IF to + len > self_len THEN to + len ELSE self_len
           IN Then(SliceAccess(to, to + len, resized),
                   Then(SliceAccess(from, from + len, other_len), {<< >>}))
           : to \in Below(self_len), from \in Below(other_len)}

\* HasCrossoverInsertMutation::mutate_crossover_insert
mutate_crossover_insert_accesses(self_len, other_len) ==
    IF self_len = 0 \/ other_len = 0
    THEN {<< >>}
    ELSE UNION { UNION {
           LET len == l + 1
               resized == self_len + len
           IN Then(SliceAccess(to, self_len, resized),
                Then(SliceAccess(to + len, to + len + (self_len - to), resized),
                 Then(SliceAccess(to, to + len, resized),
                  Then(SliceAccess(from, from + len, other_len), {<< >>}))))
           : l \in Below(other_len - from)}
           : from \in Below(other_len), to \in Below(self_len)}

\* HasCrossoverReplaceMutation::mutate_crossover_replace
mutate_crossover_replace_accesses(self_len, other_len) ==
    IF self_len = 0 \/ other_len = 0
    THEN {<< >>}
    ELSE UNION { UNION {
           LET len == 1 + l
           IN Then(SliceAccess(to, to + len, self_len),
                   Then(SliceAccess(from, from + len, other_len), {<< >>}))
           : l \in Below(Min(other_len - from, self_len - to))}
           : from \in Below(other_len), to \in Below(self_len)}

\* PacketReorderMutator::mutate
PacketReorderMutator_accesses(lens) ==
    IF Len(lens) <= 1
    THEN {<< >>}
    ELSE UNION {
           IF from = to
           THEN {<< >>}
           ELSE Then(SwapAccess(from, Len(lens)), Then(SwapAccess(to, Len(lens)), {<< >>}))
           : from \in Below(Len(lens)), to \in Below(Len(lens))}

\* PacketDeleteMutator::mutate
PacketDeleteMutator_accesses(min, lens) ==
    IF Len(lens) <= min
    THEN {<< >>}
    ELSE UNION {Then(RemoveAccess(idx, Len(lens)), {<< >>}) : idx \in Below(Len(lens))}

\* PacketDuplicateMutator::mutate without the test from == to.
PacketDuplicateMutator_accesses_untested(max, lens) ==
    IF Len(lens) >= max
    THEN {<< >>}
    ELSE UNION {
           Then(IndexAccess(from, Len(lens)), Then(InsertAccess(to, Len(lens)), {<< >>}))
           : from \in Below(Len(lens)), to \in Below(Len(lens) + 1)}

\* PacketDuplicateMutator::mutate
PacketDuplicateMutator_accesses(max, lens) ==
    IF Len(lens) >= max
    THEN {<< >>}
    ELSE UNION {
           IF from = to
           THEN {<< >>}
           ELSE Then(IndexAccess(from, Len(lens)), Then(InsertAccess(to, Len(lens)), {<< >>}))
           : from \in Below(Len(lens)), to \in Below(Len(lens) + 1)}

\* PacketCrossoverInsertMutator::mutate
PacketCrossoverInsertMutator_accesses(lens) ==
    IF Len(lens) <= 1
    THEN {<< >>}
    ELSE UNION {
           IF packet = other
           THEN {<< >>}
           ELSE Then(IndexAccess(other, Len(lens)),
                     Then(IndexAccess(packet, Len(lens)),
                          mutate_crossover_insert_accesses(lens[packet + 1], lens[other + 1])))
           : packet \in Below(Len(lens)), other \in Below(Len(lens))}

\* PacketCrossoverReplaceMutator::mutate
PacketCrossoverReplaceMutator_accesses(lens) ==
    IF Len(lens) <= 1
    THEN {<< >>}
    ELSE UNION {
           IF packet = other
           THEN {<< >>}
           ELSE Then(IndexAccess(other, Len(lens)),
                     Then(IndexAccess(packet, Len(lens)),
                          mutate_crossover_replace_accesses(lens[packet + 1], lens[other + 1])))
           : packet \in Below(Len(lens)), other \in Below(Len(lens))}

\* PacketSpliceMutator::mutate: other is removed, and inserted again if the
\* splice was skipped.
PacketSpliceMutator_accesses(min, lens) ==
    IF Len(lens) <= min
    THEN {<< >>}
    ELSE UNION {
           Then(RemoveAccess(packet + 1, Len(lens)),
                Then(IndexAccess(packet, Len(lens) - 1),
                     IF lens[packet + 1] = 0 \/ lens[packet + 2] = 0
                     THEN Then(InsertAccess(packet + 1, Len(lens) - 1), {<< >>})
                     ELSE mutate_splice_accesses(lens[packet + 1], lens[packet + 2])))
           : packet \in Below(Len(lens) - 1)}

\* PacketHavocMutator::mutate: mutate_packet indexes the packet drawn.
PacketHavocMutator_accesses(lens) ==
    IF Len(lens) = 0
    THEN {<< >>}
    ELSE UNION {Then(IndexAccess(packet, Len(lens)), {<< >>}) : packet \in Below(Len(lens))}

\* The accesses of Mutator::mutate of the mutator of that name built by new(arg).
Mutator_accesses(mutator, arg, lens) ==
    CASE mutator = "Havoc" -> PacketHavocMutator_accesses(lens)
      [] mutator = "Reorder" -> PacketReorderMutator_accesses(lens)
      [] mutator = "Splice" -> PacketSpliceMutator_accesses(PacketSpliceMutator_new(arg), lens)
      [] mutator = "CrossoverInsert" -> PacketCrossoverInsertMutator_accesses(lens)
      [] mutator = "CrossoverReplace" -> PacketCrossoverReplaceMutator_accesses(lens)
      [] mutator = "Delete" -> PacketDeleteMutator_accesses(PacketDeleteMutator_new(arg), lens)
      [] mutator = "Duplicate" ->
            PacketDuplicateMutator_accesses(PacketDuplicateMutator_new(arg), lens)

\* The accesses of the operation of that name of BytesInput.
BytesInput_accesses(operation, self_len, other_len) ==
    CASE operation = "mutate_splice" -> mutate_splice_accesses(self_len, other_len)
      [] operation = "mutate_crossover_insert" ->
            mutate_crossover_insert_accesses(self_len, other_len)
      [] operation = "mutate_crossover_replace" ->
            mutate_crossover_replace_accesses(self_len, other_len)

\* The sequences the mutators are called on, and the arguments of new.
AccessLens == SeqsUpTo(0..AccessMaxBytes, AccessMaxPackets)
AccessArgs == 0..(AccessMaxPackets + 1)

\* Mutator::mutate of a sequence mutator is called once.
mutate_accessing ==
    /\ access # None
    /\ access[1].call = None
    /\ \E mutator \in {"Havoc", "Reorder", "Splice", "CrossoverInsert", "CrossoverReplace",
                       "Delete", "Duplicate"} :
         \E arg \in AccessArgs : \E lens \in AccessLens :
            \E t \in Mutator_accesses(mutator, arg, lens) :
               access' = Some([call |-> Some(<<mutator, arg, lens>>), trace |-> t])
    /\ UNCHANGED <<obsVars, histVars, schedVars, callVars, byteVars, havocVars, typedVars,
                   monVars, fileVars, printVars, loadVars, seedVars, packVars, lengthVars,
                   noveltyVars>>

\* An operation of BytesInput is called once.
BytesInput_accessing ==
    /\ access # None
    /\ access[1].call = None
    /\ \E operation \in {"mutate_splice", "mutate_crossover_insert", "mutate_crossover_replace"} :
         \E self_len, other_len \in 0..(AccessMaxBytes + 1) :
            \E t \in BytesInput_accesses(operation, self_len, other_len) :
               access' = Some([call |-> Some(<<operation, self_len, other_len>>), trace |-> t])
    /\ UNCHANGED <<obsVars, histVars, schedVars, callVars, byteVars, havocVars, typedVars,
                   monVars, fileVars, printVars, loadVars, seedVars, packVars, lengthVars,
                   noveltyVars>>

AccessInit ==
    /\ ObserverInit
    /\ SchedIdle
    /\ NoCall
    /\ NoBytes
    /\ NoHavoc /\ NoTyped /\ NoMonitor /\ NoFile /\ NoPrint
    /\ NoLoad /\ NoTwin /\ NoPacked /\ NoKnobs /\ NoNovelty
    /\ access = Some([call |-> None, trace |-> << >>])

AccessNext ==
    \/ mutate_accessing
    \/ BytesInput_accessing

AccessSpec == AccessInit /\ [][AccessNext]_vars

\* C37: whatever the sequence (the empty one too), the argument of new and
\* the values drawn, every element access, remove, insert, swap and slice of
\* a call of a sequence mutator or of a byte-level operation is in range.
C37_AccessesInRange ==
    access # None => \A i \in 1..Len(access[1].trace) : InRange(access[1].trace[i])

\* Splice built by new(0) on packets of 1 and 2 bytes: the second packet was
\* removed and its two bytes were copied over the first, resized to 2 bytes.
C37_Witness ==
    /\ access # None
    /\ access[1].call = Some(<<"Splice", 0, <<1, 2>> >>)
    /\ access[1].trace = <<RemoveAccess(1, 2), IndexAccess(0, 1),
                           SliceAccess(0, 2, 2), SliceAccess(0, 2, 2)>>

(***************************************************************************)
(* The loop of scheduled_mutate has no bound.                              *)
(***************************************************************************)
\* C38: scheduled_mutate returns only after a mutator run that returned a
\* result other than Skipped, and an invocation on an input on which every
\* mutator of the tuple returns Skipped for every draw (the empty sequence,
\* for one) stays in its loop at every step: it never returns.
C38_SkippedForeverNeverReturns ==
    [][/\ (pc = "loop" /\ pc' = "returned") => (result # "Skipped" /\ hMutated >= 1)
       /\ (pc = "loop" /\ ~hCan) =>
             /\ pc' = "loop"
             /\ ~hCan'
             /\ input' = input
             /\ result' = "Skipped"
             /\ mret' = None]_vars

\* An invocation on the empty sequence has run mutators MaxRuns times and is
\* still in its loop.
C38_Witness ==
    /\ pc = "loop"
    /\ hInput0 = << >>
    /\ input = << >>
    /\ ~hCan
    /\ runs = MaxRuns
    /\ result = "Skipped"
    /\ mret = None

(***************************************************************************)
(* Executions one after the other, each evaluated once by is_interesting:  *)
(* pre_exec, the record calls of the execution, then is_interesting.  The  *)
(* monitor keeps the last value published under each name.                 *)
(***************************************************************************)
\* Number of values of the state type PS the target shows.
NoveltyStates == 2

NoveltyPS == 1..NoveltyStates

\* The user stats after the events fired: the last value of each name.
RECURSIVE publish(_, _)
publish(p, events) ==
    IF events = << >> THEN p
    ELSE publish(IF Head(events).name = USER_STAT_NODES
                 THEN [p EXCEPT !.nodes = Some(Head(events).value)]
                 ELSE [p EXCEPT !.edges = Some(Head(events).value)],
                 Tail(events))

\* Observer::pre_exec at the start of an execution.
novelty_pre_exec ==
    /\ ~panicked
    /\ exec_pc \in {"idle", "evaluated"}
    /\ graph' = reset(graph)
    /\ op' = "pre_exec"
    /\ exec_pc' = "running"
    /\ UNCHANGED <<panicked, ret, fired, hInteresting, published, histVars, schedVars,
                   callVars, byteVars, havocVars, typedVars, monVars, fileVars, printVars,
                   loadVars, seedVars, packVars, lengthVars, accessVars>>

\* StateObserver::record during the execution.
novelty_record ==
    /\ ~panicked
    /\ exec_pc = "running"
    /\ \E s \in NoveltyPS :
         LET n == add_node(graph, s) IN
         IF n.ok
         THEN /\ graph' = add_edge(n.graph, n.id)
              /\ panicked' = FALSE
         ELSE /\ graph' = n.graph
              /\ panicked' = TRUE
    /\ op' = "record"
    /\ UNCHANGED <<ret, fired, exec_pc, hInteresting, published, histVars, schedVars,
                   callVars, byteVars, havocVars, typedVars, monVars, fileVars, printVars,
                   loadVars, seedVars, packVars, lengthVars, accessVars>>

\* Feedback::is_interesting after the execution (post_exec changes nothing).
novelty_is_interesting ==
    /\ ~panicked
    /\ exec_pc = "running"
    /\ ret' = Some(is_interesting_ret(graph))
    /\ fired' = is_interesting_events(graph)
    /\ published' = publish(published, is_interesting_events(graph))
    /\ hInteresting' = IF is_interesting_ret(graph)
                       THEN Min(hInteresting + 1, NoveltyStates * (NoveltyStates - 1) + 1)
                       ELSE hInteresting
    /\ op' = "is_interesting"
    /\ exec_pc' = "evaluated"
    /\ UNCHANGED <<graph, panicked, histVars, schedVars, callVars, byteVars, havocVars,
                   typedVars, monVars, fileVars, printVars, loadVars, seedVars, packVars,
                   lengthVars, accessVars>>

NoveltyInit ==
    /\ ObserverInit
    /\ SchedIdle
    /\ NoCall
    /\ NoBytes
    /\ NoHavoc /\ NoTyped /\ NoMonitor /\ NoFile /\ NoPrint
    /\ NoLoad /\ NoTwin /\ NoPacked /\ NoKnobs /\ NoAccess
    /\ NoNovelty

NoveltyNext ==
    \/ novelty_pre_exec
    \/ novelty_record
    \/ novelty_is_interesting

NoveltySpec == NoveltyInit /\ [][NoveltyNext]_vars

\* C39: with NoveltyStates state values at most
\* NoveltyStates * (NoveltyStates - 1) executions are reported interesting,
\* and from some point on no step changes the edge set and every evaluation
\* by is_interesting returns false.
C39_NoveltySaturates ==
    /\ [](hInteresting <= NoveltyStates * (NoveltyStates - 1))
    /\ <>[][/\ graph'.edges = graph.edges
            /\ op' = "is_interesting" => ret' = Some(FALSE)]_vars

\* Every pair of different states is an edge and as many executions were
\* interesting; the execution evaluated last was not.
C39_Witness ==
    /\ exec_pc = "evaluated"
    /\ info(graph)[2] = NoveltyStates * (NoveltyStates - 1)
    /\ hInteresting = NoveltyStates * (NoveltyStates - 1)
    /\ ret = Some(FALSE)

(***************************************************************************)
(* The same executions with more state values, a number of executions and  *)
(* a number of record calls in each.                                       *)
(***************************************************************************)
PublishStates == 3
PublishMaxExecs == 2
PublishMaxTrace == 2

\* Observer::pre_exec at the start of an execution.
publish_pre_exec ==
    /\ ~panicked
    /\ exec_pc \in {"idle", "evaluated"}
    /\ hExecs < PublishMaxExecs
    /\ graph' = reset(graph)
    /\ op' = "pre_exec"
    /\ exec_pc' = "running"
    /\ hExecs' = hExecs + 1
    /\ hLen' = 0
    /\ UNCHANGED <<panicked, ret, fired, hInteresting, published, hStates, hPairs, hOrder,
                   hPrev, hNovel, hNewPair, hGrew, hTrace, hOld, hInfo0, schedVars, callVars,
                   byteVars, havocVars, typedVars, monVars, fileVars, printVars, loadVars,
                   seedVars, packVars, lengthVars, accessVars>>

\* StateObserver::record during the execution.
publish_record ==
    /\ ~panicked
    /\ exec_pc = "running"
    /\ hLen < PublishMaxTrace
    /\ \E s \in 1..PublishStates :
         LET n == add_node(graph, s) IN
         IF n.ok
         THEN /\ graph' = add_edge(n.graph, n.id)
              /\ panicked' = FALSE
         ELSE /\ graph' = n.graph
              /\ panicked' = TRUE
    /\ op' = "record"
    /\ hLen' = hLen + 1
    /\ UNCHANGED <<ret, fired, exec_pc, hInteresting, published, hStates, hPairs, hOrder,
                   hPrev, hNovel, hNewPair, hGrew, hTrace, hOld, hInfo0, hExecs, schedVars,
                   callVars, byteVars, havocVars, typedVars, monVars, fileVars, printVars,
                   loadVars, seedVars, packVars, lengthVars, accessVars>>

PublishNext ==
    \/ publish_pre_exec
    \/ publish_record
    \/ novelty_is_interesting

PublishSpec == NoveltyInit /\ [][PublishNext]_vars

\* C40: after every evaluation by is_interesting the value published last as
\* statemachine_edges is the edge count of the observer (or none was
\* published and the edge count is 0), and the value published last as
\* statemachine_nodes is at most the node count.
C40_PublishedEdgesExactNodesLower ==
    exec_pc = "evaluated" =>
        /\ \/ published.edges = Some(info(graph)[2])
           \/ (published.edges = None /\ info(graph)[2] = 0)
        /\ published.nodes # None => published.nodes[1] <= info(graph)[1]

\* Two nodes and one edge were published; an execution without a new edge
\* then recorded a third state, which is published nowhere.
C40_Witness ==
    /\ exec_pc = "evaluated"
    /\ ret = Some(FALSE)
    /\ published = [nodes |-> Some(2), edges |-> Some(1)]
    /\ info(graph) = <<3, 1>>

====
